---- MODULE Spec2Model ----
(***************************************************************************)
(* Geometric kernel of the DEM georeferencing simulator:                   *)
(*   core/georeferencing_engine.py  (elevation field, ray/terrain          *)
(*                                   intersector, georeference_point)      *)
(*   core/camera_model.py           (rotation matrix, pixel_to_ray)        *)
(*                                                                         *)
(* Numbers.  The code computes in float64.  Here every length is an        *)
(* integer number of sub-units, SUB sub-units to the metre, with           *)
(* SUB = 2^(max_iter+1): a march sample at a whole number of metres can    *)
(* be halved max_iter+1 times (the bisection loop plus the final           *)
(* estimate) without rounding.  A direction is a vector of integer         *)
(* numerators over a common denominator; the input sets only hold          *)
(* directions whose Euclidean norm is an integer, so normalisation is      *)
(* exact too.  Linear interpolation rounds down to the sub-unit; on the    *)
(* grids used below the quotients are exact.                               *)
(***************************************************************************)
EXTENDS Integers, Sequences, FiniteSets, TLC

VARIABLES
    entry,              \* which entry point the caller used
    camera, pixel,      \* arguments of georeference_point
    dem,                \* the engine: grid + affine transform
    ray_origin,         \* argument ray_origin
    ray_direction,      \* argument ray_direction (rebound by normalisation)
    step_size,          \* argument step_size   (NoneArg = not supplied)
    max_steps,          \* argument max_steps   (NoneArg = not supplied)
    pc,                 \* position in the code
    step_size_coarse,   \* local of intersect_ray_with_dem
    i,                  \* number of march iterations begun
    current_point, prev_point, prev_elevation, ground_elevation,
    point1, point2, elev1, elev2, iteration,   \* locals of _bisect_intersection
    direction,          \* local ray_direction after normalisation
    budget,             \* local max_steps after defaulting
    mid_point, mid_elev,\* locals of the bisection loop
    result,             \* return value of intersect_ray_with_dem
    ret,                \* the return statement taken
    geo,                \* return value of georeference_point
    queries,            \* get_elevation_at_point calls made by this call
    evals,              \* of these, the ones made by _bisect_intersection
    phases,             \* phases entered, in order
    bracket,            \* the march samples handed to _bisect_intersection
    round,              \* 1 for a call, 2 for its repetition with the same arguments
    first_result,       \* what the first of the two calls returned
    first_ret,          \* and the return site it returned from
    points,             \* argument of the elevation queries
    elevations,         \* their return value, one entry per point
    world_points,       \* argument of project_points_batch / world_to_pixel
    image_points,       \* return values of project_points_batch
    valid_mask,
    uv,                 \* return value of world_to_pixel
    ground_arg,         \* argument ground_elevation of compute_ground_coverage
    corner,             \* index of the image corner its loop is at
    footprint,          \* its local list, then its return value
    coverage_radius,    \* its second return value
    params,             \* arguments of a constructor
    built,              \* what the constructor produced
    pixels_list,        \* argument pixels of _process_camera
    reference_elevation, \* its reference plane
    px_index,           \* position of its loop in pixels_list
    results,            \* its list of results
    outcomes,           \* what georeference_point answered for each pixel so far
    state,              \* the StateManager shared by the window and the backend
    backend,            \* BackendService.geo_engine and dem_data
    run_sim_button,     \* whether the run button is enabled
    workers,            \* the Worker objects handed to the thread pool
    event_queue,        \* signals queued for the GUI thread
    current_simulation_data   \* AppWindow.current_simulation_data

vars == <<entry, camera, pixel, dem, ray_origin, ray_direction, step_size,
          max_steps, pc, step_size_coarse, i, current_point, prev_point,
          prev_elevation, ground_elevation, point1, point2, elev1, elev2,
          iteration, direction, budget, mid_point, mid_elev, result, ret, geo,
          queries, evals, phases, bracket, round, first_result, first_ret,
          points,
          elevations, world_points, image_points, valid_mask, uv, ground_arg,
          corner, footprint, coverage_radius, params, built, pixels_list,
          reference_elevation, px_index, results, outcomes, state, backend,
          run_sim_button, workers, event_queue, current_simulation_data>>

(* state of the elevation-query and camera operations *)
auxvars == <<points, elevations, world_points, image_points, valid_mask, uv,
             ground_arg, corner, footprint, coverage_radius>>
(* state of the repeated call *)
repvars == <<round, first_result, first_ret>>
(* state of the constructors and of the callers of the kernel *)
(* state of _process_camera *)
runvars == <<pixels_list, reference_elevation, px_index, results, outcomes>>
guivars == <<state, backend, run_sim_button, workers, event_queue,
             current_simulation_data>>
extvars == <<params, built, runvars, guivars>>

----------------------------------------------------------------------------
(* Program constants *)

max_iter == 10
CoarseFactor == 5
StepMargin == 100
MinSteps == 1000

(* Fixed-point resolution: sub-units per metre *)
SUB == 2 ^ (max_iter + 1)

M(n) == n * SUB

(* Bounds of the explored inputs *)
MaxStepsArg == 3
MaxHeight == 7

----------------------------------------------------------------------------
(* Arithmetic helpers *)

Abs(n) == IF n < 0 THEN -n ELSE n
Max(a, b) == IF a >= b THEN a ELSE b
Min(a, b) == IF a <= b THEN a ELSE b

RECURSIVE GCD(_, _)
GCD(a, b) == IF b = 0 THEN a ELSE GCD(b, a % b)

ISqrt(n) == CHOOSE r \in 0..n : r * r <= n /\ (r + 1) * (r + 1) > n

Vec(x, y, z) == [x |-> x, y |-> y, z |-> z]
VAdd(p, q) == Vec(p.x + q.x, p.y + q.y, p.z + q.z)
VHalf(p) == Vec(p.x \div 2, p.y \div 2, p.z \div 2)

(* np.linalg.norm of an integer vector (exact on the vectors explored) *)
Norm(v) ==
    LET g == GCD(GCD(Abs(v.x), Abs(v.y)), Abs(v.z))
    IN  IF g = 0 THEN 0
        ELSE g * ISqrt((v.x \div g) * (v.x \div g) + (v.y \div g) * (v.y \div g)
                       + (v.z \div g) * (v.z \div g))

NormIsExact(v) == Norm(v) * Norm(v) = v.x * v.x + v.y * v.y + v.z * v.z

(* Optional values *)
NoneArg == -1
NoPoint == [ok |-> FALSE, x |-> 0, y |-> 0, z |-> 0]
Point(x, y, z) == [ok |-> TRUE, x |-> x, y |-> y, z |-> z]
NoElev == [ok |-> FALSE, v |-> 0]
Elev(v) == [ok |-> TRUE, v |-> v]

----------------------------------------------------------------------------
(* Elevation field *)

dem_bounds(d) ==
    [min_x |-> d.c,
     max_x |-> d.c + d.a * d.w,
     min_y |-> d.f + d.e * d.h,
     max_y |-> d.f]

InBoundsHalfOpen(d, x, y) ==
    LET b == dem_bounds(d)
    IN  b.min_x <= x /\ x < b.max_x /\ b.min_y <= y /\ y < b.max_y

InBounds(d, x, y) ==
    LET b == dem_bounds(d)
    IN  b.min_x <= x /\ x <= b.max_x /\ b.min_y <= y /\ y <= b.max_y

(* np.linspace nodes of the interpolator: width nodes over [min_x, max_x], *)
(* height nodes from max_y down to min_y                                   *)
x_coords(d, k) ==
    LET b == dem_bounds(d) IN b.min_x + (k * (b.max_x - b.min_x)) \div (d.w - 1)
y_coords(d, k) ==
    LET b == dem_bounds(d) IN b.max_y - (k * (b.max_y - b.min_y)) \div (d.h - 1)

Lerp(z0, z1, t, len) == z0 + (t * (z1 - z0)) \div len

(* RegularGridInterpolator(method='linear', bounds_error=False,            *)
(* fill_value=nan) at (y, x): absent outside the node range                *)
interpolator(d, x, y) ==
    IF ~(x_coords(d, 0) <= x /\ x <= x_coords(d, d.w - 1)
         /\ y_coords(d, d.h - 1) <= y /\ y <= y_coords(d, 0))
    THEN NoElev
    ELSE
    LET ci == CHOOSE k \in 0..(d.w - 2) :
                  x_coords(d, k) <= x /\ (k = d.w - 2 \/ x < x_coords(d, k + 1))
        rj == CHOOSE k \in 0..(d.h - 2) :
                  y_coords(d, k) >= y /\ (k = d.h - 2 \/ y > y_coords(d, k + 1))
        tx == x - x_coords(d, ci)
        ty == y_coords(d, rj) - y
        lx == x_coords(d, ci + 1) - x_coords(d, ci)
        ly == y_coords(d, rj) - y_coords(d, rj + 1)
        r0 == Lerp(d.z[rj][ci], d.z[rj][ci + 1], tx, lx)
        r1 == Lerp(d.z[rj + 1][ci], d.z[rj + 1][ci + 1], tx, lx)
    IN  Elev(Lerp(r0, r1, ty, ly))

get_elevation_at_point(d, x, y) ==
    IF ~InBounds(d, x, y) THEN NoElev ELSE interpolator(d, x, y)

(* get_elevation_at_point with self.interpolator None, lines 112-141:      *)
(* col, row = ~transform * (x, y) for an axis-aligned transform, absent    *)
(* unless 0 <= row < num_rows - 1 and 0 <= col < num_cols - 1, else the    *)
(* bilinear blend of the four cells around (row, col)                      *)
manual_bilinear(d, x, y) ==
    LET col_num == IF d.a > 0 THEN x - d.c ELSE d.c - x
        row_num == IF d.e > 0 THEN y - d.f ELSE d.f - y
        col_len == Abs(d.a)
        row_len == Abs(d.e)
    IN  IF ~InBounds(d, x, y) THEN NoElev
        ELSE IF ~(0 <= row_num /\ row_num < (d.h - 1) * row_len
                  /\ 0 <= col_num /\ col_num < (d.w - 1) * col_len)
        THEN NoElev
        ELSE
        LET r_int == row_num \div row_len
            c_int == col_num \div col_len
            r_frac == row_num % row_len
            c_frac == col_num % col_len
            z_r1 == Lerp(d.z[r_int][c_int], d.z[r_int][c_int + 1], c_frac, col_len)
            z_r2 == Lerp(d.z[r_int + 1][c_int], d.z[r_int + 1][c_int + 1],
                         c_frac, col_len)
        IN  Elev(Lerp(z_r1, z_r2, r_frac, row_len))

(* get_elevation_batch, lines 156-164: the interpolator at each point in   *)
(* (y, x) order; NoElev stands for NaN                                     *)
get_elevation_batch_unswapped(d, pts) ==
    [k \in 1..Len(pts) |-> interpolator(d, pts[k].y, pts[k].x)]
get_elevation_batch(d, pts) ==
    [k \in 1..Len(pts) |-> interpolator(d, pts[k].x, pts[k].y)]

Samples(d) == {d.z[r][c] : r \in 0..(d.h - 1), c \in 0..(d.w - 1)}
dem_min_elevation(d) == CHOOSE m \in Samples(d) : \A s \in Samples(d) : m <= s
dem_resolution(d) == Max(Abs(d.a), Abs(d.e))

----------------------------------------------------------------------------
(* Camera model (camera_model.py) *)

(* np.cos / np.sin of np.deg2rad(a) for the attitudes explored *)
CosDeg(a) == CASE a = 0 -> 1 [] a = 90 -> 0 [] a = -90 -> 0 [] a = 180 -> -1
SinDeg(a) == CASE a = 0 -> 0 [] a = 90 -> 1 [] a = -90 -> -1 [] a = 180 -> 0

(* float64 has cos(pi/2) = 6.1e-17 and sin(pi) = 1.2e-16, not 0: a         *)
(* component that is 0 here may be a rounding residue of either sign       *)
TrigInexact(a) == a # 0

MatMul(A, B) ==
    [r \in 1..3 |-> [c \in 1..3 |->
        A[r][1] * B[1][c] + A[r][2] * B[2][c] + A[r][3] * B[3][c]]]
MatVec(A, v) ==
    Vec(A[1][1] * v.x + A[1][2] * v.y + A[1][3] * v.z,
        A[2][1] * v.x + A[2][2] * v.y + A[2][3] * v.z,
        A[3][1] * v.x + A[3][2] * v.y + A[3][3] * v.z)

Rx(g) == << <<1, 0, 0>>, <<0, CosDeg(g), -SinDeg(g)>>, <<0, SinDeg(g), CosDeg(g)>> >>
Ry(b) == << <<CosDeg(b), 0, SinDeg(b)>>, <<0, 1, 0>>, <<-SinDeg(b), 0, CosDeg(b)>> >>
Rz(a) == << <<CosDeg(a), -SinDeg(a), 0>>, <<SinDeg(a), CosDeg(a), 0>>, <<0, 0, 1>> >>

R_base_identity == << <<1, 0, 0>>, <<0, 1, 0>>, <<0, 0, 1>> >>
R_base == << <<1, 0, 0>>, <<0, -1, 0>>, <<0, 0, -1>> >>

create_rotation_matrix(roll_deg, pitch_deg, yaw_deg) ==
    MatMul(MatMul(MatMul(Rz(yaw_deg), Ry(pitch_deg)), Rx(roll_deg)), R_base)

R_cam_to_world(cam) == create_rotation_matrix(cam.roll, cam.pitch, cam.yaw)

(* A direction: integer numerators over the denominator n; fz marks a z    *)
(* numerator of 0 that stands for a float rounding residue                 *)
Dir(x, y, z, n, fz) == [x |-> x, y |-> y, z |-> z, n |-> n, fz |-> fz]

DirReduce(v, n, fz) ==
    LET g == GCD(GCD(GCD(Abs(v.x), Abs(v.y)), Abs(v.z)), n)
    IN  Dir(v.x \div g, v.y \div g, v.z \div g, n \div g, fz)

pixel_to_ray(cam, px) ==
    LET x_prime == px[1] - cam.cx
        y_prime == cam.cy - px[2]
        vec_camera == Vec(x_prime, y_prime, cam.f_px)
        ray_direction_world == MatVec(R_cam_to_world(cam), vec_camera)
        norm == Norm(ray_direction_world)
        inexact == TrigInexact(cam.roll) \/ TrigInexact(cam.pitch)
                   \/ TrigInexact(cam.yaw)
    IN  IF norm = 0
        THEN [origin |-> cam.pos, dir |-> Dir(0, 0, -1, 1, FALSE)]
        ELSE [origin |-> cam.pos,
              dir |-> DirReduce(ray_direction_world, norm,
                                inexact /\ ray_direction_world.z = 0)]

(* A pixel coordinate: the exact quotient n / d in lowest terms, d > 0 *)
Frac(n, d) ==
    LET g == GCD(Abs(n), d)
    IN  [n |-> n \div g, d |-> d \div g]
Whole(k) == [n |-> k, d |-> 1]

NoPixel == [ok |-> FALSE, u |-> Whole(0), v |-> Whole(0)]
PixelAt(u, v) == [ok |-> TRUE, u |-> u, v |-> v]

Transpose(A) == [r \in 1..3 |-> [c \in 1..3 |-> A[c][r]]]

(* world_to_camera_batch, lines 95-101, for one point *)
world_to_camera(cam, p) ==
    LET translated_points == Vec(p.x - cam.pos.x, p.y - cam.pos.y, p.z - cam.pos.z)
    IN  MatVec(Transpose(R_cam_to_world(cam)), translated_points)

(* lines 133-134 and 164-165: the pinhole projection of a camera-frame     *)
(* point q with Z > 0                                                      *)
pixel_x(cam, q) == Frac(cam.f_px * q.x + cam.cx * q.z, q.z)
pixel_y_unflipped(cam, q) == Frac(cam.cy * q.z + cam.f_px * q.y, q.z)
pixel_y(cam, q) == Frac(cam.cy * q.z - cam.f_px * q.y, q.z)

(* line 167: 0 <= u < image_width_px and 0 <= v < image_height_px *)
pixel_in_bounds_inclusive(cam, u, v) ==
    /\ 0 <= u.n /\ u.n <= cam.w_px * u.d
    /\ 0 <= v.n /\ v.n <= cam.h_px * v.d
pixel_in_bounds(cam, u, v) ==
    /\ 0 <= u.n /\ u.n < cam.w_px * u.d
    /\ 0 <= v.n /\ v.n < cam.h_px * v.d

(* world_to_pixel, lines 157-170 *)
world_to_pixel(cam, p) ==
    LET P_cam == world_to_camera(cam, p)
    IN  IF P_cam.z <= 0 THEN NoPixel
        ELSE LET u == pixel_x(cam, P_cam)
                 v == pixel_y(cam, P_cam)
             IN  IF pixel_in_bounds(cam, u, v) THEN PixelAt(u, v) ELSE NoPixel

(* lines 137-138: the in_bounds mask of the batch projection *)
in_bounds_mask(cam, u, v) ==
    /\ u.n >= 0 /\ u.n < cam.w_px * u.d
    /\ v.n >= 0 /\ v.n < cam.h_px * v.d

(* project_points_batch, lines 113-150: the points in front are compressed *)
(* into valid_pts, projected, and the in-bounds results scattered back     *)
(* through valid_indices[in_bounds]                                        *)
front_indices(cam, pts) ==
    SelectSeq([k \in 1..Len(pts) |-> k],
              LAMBDA k : world_to_camera(cam, pts[k]).z > 0)

scatter_index_compressed(valid_indices, j) == j
scatter_index(valid_indices, j) == valid_indices[j]

project_points_batch(cam, pts) ==
    LET valid_indices == front_indices(cam, pts)
        valid_pts(j) == world_to_camera(cam, pts[valid_indices[j]])
        in_bounds(j) == in_bounds_mask(cam, pixel_x(cam, valid_pts(j)),
                                 pixel_y(cam, valid_pts(j)))
        hits(k) == {j \in 1..Len(valid_indices) :
                        in_bounds(j) /\ scatter_index(valid_indices, j) = k}
    IN  [image_points |->
            [k \in 1..Len(pts) |->
                IF hits(k) = {} THEN <<Whole(0), Whole(0)>>
                ELSE LET j == CHOOSE j \in hits(k) : TRUE
                     IN  <<pixel_x(cam, valid_pts(j)), pixel_y(cam, valid_pts(j))>>],
         valid_mask |-> [k \in 1..Len(pts) |-> hits(k) # {}]]

(* compute_ground_coverage, lines 197-202: the image corners in the order  *)
(* top-left, top-right, bottom-right, bottom-left                          *)
image_corners_full(cam) ==
    << <<0, 0>>, <<cam.w_px, 0>>, <<cam.w_px, cam.h_px>>, <<0, cam.h_px>> >>
image_corners(cam) ==
    << <<0, 0>>, <<cam.w_px - 1, 0>>, <<cam.w_px - 1, cam.h_px - 1>>,
       <<0, cam.h_px - 1>> >>

(* line 215: abs(ray_direction[2]) < 1e-9; a rounding residue is below it  *)
ray_parallel_to_ground(dir) == dir.z = 0

(* lines 221-223: t = (ground_elevation - ray_origin[2]) / ray_direction[2] *)
(* is negative, for a camera above the ground, when the ray points up       *)
intersection_behind_camera(origin, dir, ground) ==
    IF dir.z > 0 THEN ground < origin.z
    ELSE ground > origin.z

(* lines 229-231: ray_origin + t * ray_direction, its x and y *)
intersection_point(origin, dir, ground) ==
    LET num == origin.z - ground
        den == -dir.z
        along(c) == IF den > 0 THEN (num * c) \div den
                    ELSE -((num * c) \div (-den))
    IN  [x |-> origin.x + along(dir.x), y |-> origin.y + along(dir.y)]

RECURSIVE SqrtBetween(_, _, _)
SqrtBetween(n, lo, hi) ==
    IF lo >= hi THEN lo
    ELSE LET mid == (lo + hi + 1) \div 2
         IN  IF mid * mid <= n THEN SqrtBetween(n, mid, hi)
             ELSE SqrtBetween(n, lo, mid - 1)
FloorSqrt(n) == SqrtBetween(n, 0, 46340)

(* lines 239-243: the mean distance of the vertices from their centroid *)
mean_corner_distance(fp) ==
    LET center_x == (fp[1].x + fp[2].x + fp[3].x + fp[4].x) \div 4
        center_y == (fp[1].y + fp[2].y + fp[3].y + fp[4].y) \div 4
        distances(k) == FloorSqrt((fp[k].x - center_x) * (fp[k].x - center_x)
                                  + (fp[k].y - center_y) * (fp[k].y - center_y))
    IN  (distances(1) + distances(2) + distances(3) + distances(4)) \div 4

(* lines 234-245: anything but four vertices is returned as [], 0 *)
coverage_result_partial(fp) ==
    IF Len(fp) = 0 THEN [footprint |-> << >>, coverage_radius |-> 0]
    ELSE [footprint |-> fp,
          coverage_radius |-> IF Len(fp) = 4 THEN mean_corner_distance(fp) ELSE 0]
coverage_result(fp) ==
    IF Len(fp) # 4 THEN [footprint |-> << >>, coverage_radius |-> 0]
    ELSE [footprint |-> fp, coverage_radius |-> mean_corner_distance(fp)]

(* a dictionary entry that holds a number, or None *)
Absent == [ok |-> FALSE, v |-> 0]
Present(v) == [ok |-> TRUE, v |-> v]

(* georeference_point, lines 295-308 *)
georeference_result_always(intersection) ==
    [success |-> TRUE,
     world_x |-> IF intersection.ok THEN Present(intersection.x) ELSE Absent,
     world_y |-> IF intersection.ok THEN Present(intersection.y) ELSE Absent,
     world_z |-> IF intersection.ok THEN Present(intersection.z) ELSE Absent]
georeference_result(intersection) ==
    IF intersection.ok
    THEN [success |-> TRUE, world_x |-> Present(intersection.x),
          world_y |-> Present(intersection.y),
          world_z |-> Present(intersection.z)]
    ELSE [success |-> FALSE, world_x |-> Absent, world_y |-> Absent,
          world_z |-> Absent]

NoGeo == [success |-> FALSE, world_x |-> Absent, world_y |-> Absent,
          world_z |-> Absent]

----------------------------------------------------------------------------
(* Ray/terrain intersector (intersect_ray_with_dem, _bisect_intersection) *)

(* line 178: ray_direction[2] >= 0.  A residue z is tested with the sign   *)
(* float64 gave it, which this model leaves open                           *)
IsUpwardStrict(dir) == dir.z > 0
IsUpward(dir) == dir.z >= 0
UpwardOutcomes(dir) ==
    IF dir.fz /\ dir.z = 0 THEN {TRUE, FALSE} ELSE {IsUpward(dir)}

(* float64 gives one and the same residue whenever the same inputs are     *)
(* given again: the repetition of a call takes the branch its first run    *)
(* took                                                                    *)
UpwardOutcomesOfCall(dir, rnd, first_site) ==
    {o \in UpwardOutcomes(dir) :
        (rnd = 2 /\ dir.fz /\ dir.z = 0) => (o = (first_site = "upward"))}

(* line 183: ray_direction = ray_direction / norm binds the local name to  *)
(* a new array; the array the caller passed keeps its contents             *)
caller_array_after_normalize_inplace(arr, unit) == unit
caller_array_after_normalize(arr, unit) == arr

(* line 183: ray_direction / np.linalg.norm(ray_direction) *)
normalize(dir) == [dir EXCEPT !.n = Norm(Vec(dir.x, dir.y, dir.z))]

(* line 191: vertical_distance <= 0 *)
CameraBelowGroundStrict(vertical_distance) == vertical_distance < 0
CameraBelowGround(vertical_distance) == vertical_distance <= 0

(* lines 200-203 *)
coarse_step(d, step_arg) ==
    IF step_arg = NoneArg THEN dem_resolution(d) * CoarseFactor ELSE step_arg

(* lines 195-196, 205-207; a residue z makes estimated_ray_length, and so *)
(* the budget, astronomically large                                        *)
Unbounded == 2 ^ 30
default_max_steps_quotient(vertical_distance, dir, step) ==
    IF dir.z = 0 THEN Unbounded
    ELSE (vertical_distance * dir.n) \div (Abs(dir.z) * step)
default_max_steps(vertical_distance, dir, step) ==
    IF dir.z = 0 THEN Unbounded
    ELSE Max(MinSteps,
             (vertical_distance * dir.n) \div (Abs(dir.z) * step) + StepMargin)

(* line 220: ray_direction * step_size_coarse *)
StepVec(dir, step) ==
    Vec((step * dir.x) \div dir.n, (step * dir.y) \div dir.n,
        (step * dir.z) \div dir.n)

StepIsExact(dir, step) ==
    /\ (step * dir.x) % dir.n = 0
    /\ (step * dir.y) % dir.n = 0
    /\ (step * dir.z) % dir.n = 0

(* line 226: the march left the world bounds *)
march_leaves_bounds_stale(prev) == prev
march_leaves_bounds(prev) == NoPoint

(* line 254: the loop ended without a crossing *)
march_exhausted_guess(cur) == Point(cur.x, cur.y, cur.z)
march_exhausted(cur) == NoPoint

(* line 235: current_point[2] <= ground_elevation *)
CrossedStrict(z, ground) == z < ground
Crossed(z, ground) == z <= ground

(* lines 243-247: crossing on the first step, no previous sample *)
first_step_intersection(cur, ground) == Point(cur.x, cur.y, ground)

(* line 261 *)
Midpoint(p1, p2) == VHalf(VAdd(p1, p2))

(* line 272: mid_point[2] > mid_elev *)
midpoint_below(z, e) == z < e
midpoint_above(z, e) == z > e

(* line 268: abs(mid_point[2] - mid_elev) < 0.1 *)
Converged(z, e) == 10 * Abs(z - e) < SUB

(* line 269 *)
converged_point_midz(mid, e) == Point(mid.x, mid.y, mid.z)
converged_point(mid, e) == Point(mid.x, mid.y, e)

(* line 219: range(max_steps) *)
MarchLoopRunsOneMore(k, b) == k <= b
MarchLoopRuns(k, b) == k < b

(* line 260: range(max_iter) *)
BisectLoopRunsOneMore(it) == it <= max_iter
BisectLoopRuns(it) == it < max_iter

(* lines 280-282: `final_elev if final_elev else final_point[2]` takes the *)
(* midpoint's own z when the elevation is absent or equal to 0.0           *)
final_estimate_fails(d, p1, p2) == NoPoint
final_estimate(d, p1, p2) ==
    LET final_point == Midpoint(p1, p2)
        final_elev == get_elevation_at_point(d, final_point.x, final_point.y)
    IN  Point(final_point.x, final_point.y,
              IF final_elev.ok /\ final_elev.v # 0 THEN final_elev.v
              ELSE final_point.z)

----------------------------------------------------------------------------
(* Inputs *)

(* A 17 x 3 grid of 1 m cells, world bounds [0,17] x [0,3]; the            *)
(* interpolator's nodes are NodeDX = 17/16 m apart in x                    *)
SmallGrid(zf(_, _)) ==
    [w |-> 17, h |-> 3, a |-> M(1), e |-> -M(1), c |-> 0, f |-> M(3),
     z |-> [r \in 0..2 |-> [col \in 0..16 |-> zf(r, col)]]]
NodeDX == (17 * SUB) \div 16

FlatZero(r, col) == 0
FlatTwo(r, col) == M(2)
RampZ(r, col) == col * NodeDX
SpikeZ(r, col) == IF col = 2 THEN M(1) + 4 * NodeDX ELSE M(1)

(* A 5 x 5 grid of 200 m cells, world bounds [0,1000] x [0,1000] *)
BigGrid(zf(_, _)) ==
    [w |-> 5, h |-> 5, a |-> M(200), e |-> -M(200), c |-> 0, f |-> M(1000),
     z |-> [r \in 0..4 |-> [col \in 0..4 |-> zf(r, col)]]]
FlatHundred(r, col) == M(100)

SmallDems == {SmallGrid(FlatZero), SmallGrid(FlatTwo), SmallGrid(RampZ),
              SmallGrid(SpikeZ)}
BigDems == {BigGrid(FlatHundred), BigGrid(FlatZero)}

IsFlat(d) == Cardinality(Samples(d)) = 1

SmallOrigins ==
    {Vec(M(x), M(1), M(z)) : x \in {1, 8}, z \in 0..MaxHeight}
BigOrigins == {Vec(M(500), M(500), M(z)) : z \in {100, 600, 1432}}

SmallDirections ==
    {Dir(0, 0, -1, 1, FALSE), Dir(0, 0, -2, 1, FALSE), Dir(3, 0, -4, 1, FALSE),
     Dir(0, 3, -4, 1, FALSE), Dir(4, 0, -3, 1, FALSE), Dir(1, 0, 0, 1, FALSE),
     Dir(0, 0, 1, 1, FALSE), Dir(3, 0, 4, 1, FALSE)}
BigDirections == {Dir(0, 0, -1, 1, FALSE), Dir(0, 0, 1, 1, FALSE)}

StepArgs == {NoneArg, M(10)}
BigStepArgs == {NoneArg, M(999)}
MaxStepsArgs == {NoneArg} \cup 0..MaxStepsArg

(* The camera of the concrete scenario: f = 1000 px, sensor 1000 x 1000,   *)
(* principal point at the sensor centre, at (500, 500, 600)                *)
Cameras ==
    {[f_px |-> 1000, w_px |-> 1000, h_px |-> 1000, cx |-> 500, cy |-> 500,
      pos |-> Vec(M(500), M(500), M(600)),
      roll |-> 0, pitch |-> p, yaw |-> y] : p \in {-90, 0}, y \in {0, 90}}
NoCamera ==
    [f_px |-> 1, w_px |-> 1, h_px |-> 1, cx |-> 0, cy |-> 0,
     pos |-> Vec(0, 0, 0), roll |-> 0, pitch |-> 0, yaw |-> 0]
Pixels == {<<500, 500>>}

RayCalls ==
    {[entry |-> "intersect_ray_with_dem", dem |-> d, origin |-> o, dir |-> v,
      step |-> s, max |-> m, camera |-> NoCamera, pixel |-> <<0, 0>>] :
        d \in SmallDems, o \in SmallOrigins, v \in SmallDirections,
        s \in StepArgs, m \in MaxStepsArgs}
    \cup
    {[entry |-> "intersect_ray_with_dem", dem |-> d, origin |-> o, dir |-> v,
      step |-> s, max |-> m, camera |-> NoCamera, pixel |-> <<0, 0>>] :
        d \in BigDems, o \in BigOrigins, v \in BigDirections,
        s \in BigStepArgs, m \in MaxStepsArgs}

GeoCalls ==
    {[entry |-> "georeference_point", dem |-> d, origin |-> Vec(0, 0, 0),
      dir |-> Dir(0, 0, 0, 1, FALSE), step |-> NoneArg, max |-> NoneArg,
      camera |-> cam, pixel |-> px] :
        d \in BigDems, cam \in Cameras, px \in Pixels}

(* Calls whose normalisation and step vector are exact in sub-units *)
ExactCall(cl) ==
    \/ cl.entry = "georeference_point"
    \/ /\ NormIsExact(Vec(cl.dir.x, cl.dir.y, cl.dir.z))
       /\ StepIsExact(normalize(cl.dir), coarse_step(cl.dem, cl.step))

Calls == {cl \in RayCalls \cup GeoCalls : ExactCall(cl)}

(* Vertical rays from 3 m over the flat small grid with a step of 1/512 m: *)
(* estimated_ray_length / step_size is 1536, above the floor of MinSteps   *)
FineCalls ==
    {[entry |-> "intersect_ray_with_dem", dem |-> SmallGrid(FlatZero),
      origin |-> Vec(M(1), M(1), M(3)), dir |-> Dir(0, 0, -1, 1, FALSE),
      step |-> 4, max |-> m, camera |-> NoCamera, pixel |-> <<0, 0>>] :
        m \in {NoneArg, MaxStepsArg}}

(* Downward rays over the large grids with the default budget: their       *)
(* 1000 m steps leave brackets the bisection cannot close in max_iter      *)
(* iterations                                                              *)
LongCalls ==
    {cl \in Calls : /\ cl.entry = "intersect_ray_with_dem"
                    /\ cl.dem \in BigDems
                    /\ cl.max = NoneArg
                    /\ cl.dir.z < 0}

(* The direct calls on the small grids from x = 1 m, the fine-step and the *)
(* long calls                                                              *)
LiveCalls ==
    {cl \in Calls : /\ cl.entry = "intersect_ray_with_dem"
                    /\ cl.dem \in SmallDems
                    /\ cl.origin.x = M(1)}
    \cup FineCalls \cup LongCalls

----------------------------------------------------------------------------
(* State machine *)

(* nothing is being constructed *)
NoParams == [kind |-> "none"]
IdleRun ==
    /\ pixels_list = << >>
    /\ reference_elevation = 0
    /\ px_index = 0
    /\ results = << >>
    /\ outcomes = << >>
(* no window is open *)
NoState == [current_scene |-> "none", simulation_mode |-> "none"]
NoBackend == [geo_engine |-> "none", dem_data |-> "none"]
NoData == [scene |-> "none", has_results |-> FALSE]
IdleGui ==
    /\ state = NoState
    /\ backend = NoBackend
    /\ run_sim_button = FALSE
    /\ workers = << >>
    /\ event_queue = << >>
    /\ current_simulation_data = NoData
IdleExt ==
    /\ params = NoParams
    /\ built = "none"
    /\ IdleRun
    /\ IdleGui

(* the operations that are not running hold no state *)
IdleAux ==
    /\ points = << >>
    /\ elevations = << >>
    /\ world_points = << >>
    /\ image_points = << >>
    /\ valid_mask = << >>
    /\ uv = NoPixel
    /\ ground_arg = 0
    /\ corner = 0
    /\ footprint = << >>
    /\ coverage_radius = 0

(* the state when the caller enters the call cl *)
InitCall(cl) ==
    /\ entry = cl.entry
    /\ camera = cl.camera
    /\ pixel = cl.pixel
    /\ dem = cl.dem
    /\ ray_origin = cl.origin
    /\ ray_direction = cl.dir
    /\ step_size = cl.step
    /\ max_steps = cl.max
    /\ pc = IF cl.entry = "georeference_point" THEN "pixel_to_ray"
            ELSE "validate"
    /\ step_size_coarse = 0
    /\ i = 0
    /\ current_point = Vec(0, 0, 0)
    /\ prev_point = NoPoint
    /\ prev_elevation = NoElev
    /\ ground_elevation = NoElev
    /\ point1 = Vec(0, 0, 0)
    /\ point2 = Vec(0, 0, 0)
    /\ elev1 = 0
    /\ elev2 = 0
    /\ iteration = 0
    /\ direction = cl.dir
    /\ budget = 0
    /\ mid_point = Vec(0, 0, 0)
    /\ mid_elev = NoElev
    /\ result = NoPoint
    /\ ret = "none"
    /\ geo = NoGeo
    /\ queries = 0
    /\ evals = 0
    /\ phases = << >>
    /\ bracket = << >>
    /\ round = 1
    /\ first_result = NoPoint
    /\ first_ret = "none"
    /\ IdleAux
    /\ IdleExt

Init == \E cl \in Calls : InitCall(cl)

(* georeference_point, line 288: the ray of the pixel *)
PixelToRay ==
    /\ UNCHANGED extvars
    /\ pc = "pixel_to_ray"
    /\ UNCHANGED <<auxvars, repvars>>
    /\ LET r == pixel_to_ray(camera, pixel)
       IN  /\ ray_origin' = r.origin
           /\ ray_direction' = r.dir
           /\ direction' = r.dir
    /\ pc' = "validate"
    /\ UNCHANGED <<entry, camera, pixel, dem, step_size, max_steps,
                   step_size_coarse, i, current_point, prev_point,
                   prev_elevation, ground_elevation, point1, point2, elev1,
                   elev2, iteration, budget, mid_point, mid_elev, result, ret,
                   geo, queries, evals, phases, bracket>>

Return(point, site) ==
    /\ result' = point
    /\ ret' = site
    /\ pc' = "returned"

(* intersect_ray_with_dem, lines 177-217: validation and parameters *)
Validate ==
    /\ UNCHANGED extvars
    /\ pc = "validate"
    /\ UNCHANGED <<auxvars, repvars>>
    /\ \E upward \in UpwardOutcomesOfCall(ray_direction, round, first_ret) :
        LET unit == normalize(ray_direction)
            vertical_distance == ray_origin.z - dem_min_elevation(dem)
            step == coarse_step(dem, step_size)
        IN  IF upward
            THEN /\ Return(NoPoint, "upward")
                 /\ phases' = Append(phases, "validate")
                 /\ UNCHANGED <<direction, ray_direction, step_size_coarse,
                                budget, current_point>>
            ELSE IF CameraBelowGround(vertical_distance)
            THEN /\ Return(NoPoint, "below_ground")
                 /\ phases' = Append(phases, "validate")
                 /\ direction' = unit
                 /\ ray_direction' = caller_array_after_normalize(ray_direction, unit)
                 /\ UNCHANGED <<step_size_coarse, budget, current_point>>
            ELSE /\ direction' = unit
                 /\ ray_direction' = caller_array_after_normalize(ray_direction, unit)
                 /\ step_size_coarse' = step
                 /\ budget' = IF max_steps = NoneArg
                              THEN default_max_steps(vertical_distance, unit, step)
                              ELSE max_steps
                 /\ current_point' = ray_origin
                 /\ phases' = Append(Append(phases, "validate"), "march")
                 /\ pc' = "march"
                 /\ UNCHANGED <<result, ret>>
    /\ UNCHANGED <<entry, camera, pixel, dem, ray_origin, step_size, max_steps, i, prev_point, prev_elevation,
                   ground_elevation, point1, point2, elev1, elev2, iteration,
                   mid_point, mid_elev, geo, queries, evals, bracket>>

(* lines 219-252: one iteration of the coarse march *)
MarchStep ==
    /\ UNCHANGED extvars
    /\ pc = "march"
    /\ UNCHANGED <<auxvars, repvars>>
    /\ MarchLoopRuns(i, budget)
    /\ i' = i + 1
    /\ LET cur == VAdd(current_point, StepVec(direction, step_size_coarse))
           ground == get_elevation_at_point(dem, cur.x, cur.y)
       IN  /\ current_point' = cur
           /\ IF ~InBounds(dem, cur.x, cur.y)
              THEN /\ Return(march_leaves_bounds(prev_point), "left_bounds")
                   /\ UNCHANGED <<prev_point, prev_elevation, ground_elevation,
                                  point1, point2, elev1, elev2, queries,
                                  phases, bracket>>
              ELSE /\ queries' = queries + 1
                   /\ ground_elevation' = ground
                   /\ IF ~ground.ok
                      THEN /\ Return(NoPoint, "absent")
                           /\ UNCHANGED <<prev_point, prev_elevation, point1,
                                          point2, elev1, elev2, phases, bracket>>
                      ELSE IF Crossed(cur.z, ground.v)
                      THEN IF prev_point.ok
                           THEN /\ point1' = Vec(prev_point.x, prev_point.y,
                                                 prev_point.z)
                                /\ point2' = cur
                                /\ elev1' = prev_elevation.v
                                /\ elev2' = ground.v
                                /\ bracket' = <<Vec(prev_point.x, prev_point.y,
                                                    prev_point.z), cur>>
                                /\ phases' = Append(phases, "bisect")
                                /\ pc' = "bisect"
                                /\ UNCHANGED <<prev_point, prev_elevation,
                                               result, ret>>
                           ELSE /\ Return(first_step_intersection(cur, ground.v),
                                          "first_step")
                                /\ UNCHANGED <<prev_point, prev_elevation,
                                               point1, point2, elev1, elev2,
                                               phases, bracket>>
                      ELSE /\ prev_point' = Point(cur.x, cur.y, cur.z)
                           /\ prev_elevation' = ground
                           /\ UNCHANGED <<pc, result, ret, point1, point2,
                                          elev1, elev2, phases, bracket>>
    /\ UNCHANGED <<entry, camera, pixel, dem, ray_origin, ray_direction,
                   step_size, max_steps, step_size_coarse, iteration,
                   direction, budget, mid_point, mid_elev, geo, evals>>

(* line 254: the loop ran max_steps times without a crossing *)
MarchExhausted ==
    /\ UNCHANGED extvars
    /\ pc = "march"
    /\ UNCHANGED <<auxvars, repvars>>
    /\ ~MarchLoopRuns(i, budget)
    /\ Return(march_exhausted(current_point), "budget")
    /\ UNCHANGED <<entry, camera, pixel, dem, ray_origin, ray_direction,
                   step_size, max_steps, step_size_coarse, i, current_point,
                   prev_point, prev_elevation, ground_elevation, point1,
                   point2, elev1, elev2, iteration, direction, budget,
                   mid_point, mid_elev, geo, queries, evals, phases, bracket>>

(* _bisect_intersection, lines 260-277: one iteration of the loop; an      *)
(* absent elevation breaks out to the final estimate of lines 280-282      *)
BisectStep ==
    /\ UNCHANGED extvars
    /\ pc = "bisect"
    /\ UNCHANGED <<auxvars, repvars>>
    /\ BisectLoopRuns(iteration)
    /\ iteration' = iteration + 1
    /\ LET mid == Midpoint(point1, point2)
           me == get_elevation_at_point(dem, mid.x, mid.y)
       IN  /\ mid_point' = mid
           /\ mid_elev' = me
           /\ IF ~me.ok
              THEN /\ Return(final_estimate(dem, point1, point2), "estimate")
                   /\ queries' = queries + 2
                   /\ evals' = evals + 2
                   /\ UNCHANGED <<point1, point2, elev1, elev2>>
              ELSE /\ queries' = queries + 1
                   /\ evals' = evals + 1
                   /\ IF Converged(mid.z, me.v)
                      THEN /\ Return(converged_point(mid, me.v), "converged")
                           /\ UNCHANGED <<point1, point2, elev1, elev2>>
                      ELSE IF midpoint_above(mid.z, me.v)
                      THEN /\ point1' = mid
                           /\ elev1' = me.v
                           /\ UNCHANGED <<point2, elev2, pc, result, ret>>
                      ELSE /\ point2' = mid
                           /\ elev2' = me.v
                           /\ UNCHANGED <<point1, elev1, pc, result, ret>>
    /\ UNCHANGED <<entry, camera, pixel, dem, ray_origin, ray_direction,
                   step_size, max_steps, step_size_coarse, i, current_point,
                   prev_point, prev_elevation, ground_elevation, direction,
                   budget, geo, phases, bracket>>

(* lines 279-282: the loop used its max_iter iterations *)
BisectExhausted ==
    /\ UNCHANGED extvars
    /\ pc = "bisect"
    /\ UNCHANGED <<auxvars, repvars>>
    /\ ~BisectLoopRuns(iteration)
    /\ Return(final_estimate(dem, point1, point2), "estimate")
    /\ queries' = queries + 1
    /\ evals' = evals + 1
    /\ UNCHANGED <<entry, camera, pixel, dem, ray_origin, ray_direction,
                   step_size, max_steps, step_size_coarse, i, current_point,
                   prev_point, prev_elevation, ground_elevation, point1,
                   point2, elev1, elev2, iteration, direction, budget,
                   mid_point, mid_elev, geo, phases, bracket>>

(* georeference_point, lines 295-308: wrap the outcome *)
GeoreferenceReturn ==
    /\ UNCHANGED extvars
    /\ pc = "returned"
    /\ UNCHANGED <<auxvars, repvars>>
    /\ entry \in {"georeference_point", "_process_camera",
                 "_process_pixels_batch"}
    /\ geo' = georeference_result(result)
    /\ pc' = "done"
    /\ UNCHANGED <<entry, camera, pixel, dem, ray_origin, ray_direction,
                   step_size, max_steps, step_size_coarse, i, current_point,
                   prev_point, prev_elevation, ground_elevation, point1,
                   point2, elev1, elev2, iteration, direction, budget,
                   mid_point, mid_elev, result, ret, queries, evals, phases,
                   bracket>>

(* The call has ended: intersect_ray_with_dem returned to its caller *)
Finished ==
    \/ pc = "returned" /\ entry = "intersect_ray_with_dem"
    \/ pc = "done" /\ entry = "georeference_point"

(* The caller makes the same call again, with the arrays it passed the     *)
(* first time; every local of the first call is gone                       *)
CallAgain ==
    /\ UNCHANGED extvars
    /\ Finished
    /\ round = 1
    /\ round' = 2
    /\ first_result' = result
    /\ first_ret' = ret
    /\ pc' = IF entry = "georeference_point" THEN "pixel_to_ray" ELSE "validate"
    /\ IF entry = "georeference_point"
       THEN /\ ray_origin' = Vec(0, 0, 0)
            /\ ray_direction' = Dir(0, 0, 0, 1, FALSE)
       ELSE UNCHANGED <<ray_origin, ray_direction>>
    /\ direction' = ray_direction'
    /\ step_size_coarse' = 0
    /\ i' = 0
    /\ current_point' = Vec(0, 0, 0)
    /\ prev_point' = NoPoint
    /\ prev_elevation' = NoElev
    /\ ground_elevation' = NoElev
    /\ point1' = Vec(0, 0, 0)
    /\ point2' = Vec(0, 0, 0)
    /\ elev1' = 0
    /\ elev2' = 0
    /\ iteration' = 0
    /\ budget' = 0
    /\ mid_point' = Vec(0, 0, 0)
    /\ mid_elev' = NoElev
    /\ result' = NoPoint
    /\ ret' = "none"
    /\ geo' = NoGeo
    /\ queries' = 0
    /\ evals' = 0
    /\ phases' = << >>
    /\ bracket' = << >>
    /\ UNCHANGED <<entry, camera, pixel, dem, step_size, max_steps, auxvars>>

Next ==
    \/ PixelToRay
    \/ Validate
    \/ MarchStep
    \/ MarchExhausted
    \/ BisectStep
    \/ BisectExhausted
    \/ GeoreferenceReturn
    \/ CallAgain

Spec == Init /\ [][Next]_vars

----------------------------------------------------------------------------
(* Properties *)

Returned == pc \in {"returned", "done"}
PastValidation == pc \notin {"pixel_to_ray", "validate"}
FlatElevation(d) == d.z[0][0]
Tolerance(a, b) == 10 * Abs(a - b) < SUB

(* k-th sample of the coarse march, origin + k * step * direction *)
MarchSample(k) ==
    LET sv == StepVec(direction, step_size_coarse)
    IN  Vec(ray_origin.x + k * sv.x, ray_origin.y + k * sv.y,
            ray_origin.z + k * sv.z)

(* (x, y) is where the ray is within 0.1 m of height E: the analytic       *)
(* ray-plane intersection, to the accuracy the z tolerance allows          *)
OnRayAtHeight(p, E) ==
    LET dz == ray_direction.z
        ex == p.x * dz - (ray_origin.x * dz + (E - ray_origin.z) * ray_direction.x)
        ey == p.y * dz - (ray_origin.y * dz + (E - ray_origin.z) * ray_direction.y)
    IN  /\ ex = 0 \/ 10 * Abs(ex) < SUB * Abs(ray_direction.x)
        /\ ey = 0 \/ 10 * Abs(ey) < SUB * Abs(ray_direction.y)

(* C1: over a flat grid at elevation E, a downward ray from above E whose  *)
(* march stays inside the bounds (default step budget) yields a point with *)
(* z within 0.1 of E and (x, y) at the analytic ray-plane intersection,    *)
(* also when the origin is less than one coarse step above E.              *)
C1_FlatGridIntersection ==
    (/\ Returned
     /\ IsFlat(dem)
     /\ ray_direction.z < 0
     /\ ray_origin.z > FlatElevation(dem)
     /\ max_steps = NoneArg
     /\ ret \notin {"left_bounds", "absent"})
    => /\ result.ok
       /\ Tolerance(result.z, FlatElevation(dem))
       /\ OnRayAtHeight(result, FlatElevation(dem))

IsScenarioCamera(cam, pitch_deg) ==
    /\ cam.f_px = 1000 /\ cam.w_px = 1000 /\ cam.h_px = 1000
    /\ cam.cx = 500 /\ cam.cy = 500
    /\ cam.pos = Vec(M(500), M(500), M(600))
    /\ cam.roll = 0 /\ cam.pitch = pitch_deg /\ cam.yaw = 0

ScenarioRun(pitch_deg) ==
    /\ pc = "done"
    /\ entry = "georeference_point"
    /\ dem = BigGrid(FlatHundred)
    /\ IsScenarioCamera(camera, pitch_deg)
    /\ pixel = <<500, 500>>

GeoAt(x, y, z) ==
    /\ geo.success
    /\ geo.world_x = Present(x)
    /\ geo.world_y = Present(y)
    /\ geo.world_z.ok
    /\ Tolerance(geo.world_z.v, z)

(* C2 as stated: camera at (500,500,600) with pitch -90, roll 0, yaw 0     *)
(* over the flat 100 m grid; georeference_point((500,500)) succeeds at     *)
(* (500, 500, 100).                                                        *)
C2_ScenarioPitchMinus90 ==
    ScenarioRun(-90) => GeoAt(M(500), M(500), M(100))

(* C2 amended: the scenario succeeds at (500, 500, 100) when the camera's  *)
(* pitch is 0 (the attitude at which the optical axis points straight      *)
(* down); with pitch -90 the optical axis is horizontal and the call       *)
(* reports failure.                                                        *)
C2_ScenarioPitchZero ==
    /\ ScenarioRun(0) => GeoAt(M(500), M(500), M(100))
    /\ ScenarioRun(-90) => ~geo.success /\ geo.world_z = Absent

C2_Witness == ScenarioRun(0) /\ geo.success

(* C3: a ray with direction.z >= 0 fails, whatever the grid, origin,       *)
(* step_size or max_steps, and no march step or elevation query is made.   *)
C3_UpwardRayFails ==
    (PastValidation /\ ray_direction.z >= 0 /\ ~ray_direction.fz)
    => /\ Returned
       /\ ~result.ok
       /\ i = 0
       /\ queries = 0

C3_Witness ==
    /\ pc = "returned"
    /\ ray_direction.z = 0
    /\ ~ray_direction.fz
    /\ ~IsFlat(dem)
    /\ ray_origin.z > dem_min_elevation(dem)
    /\ max_steps # NoneArg
    /\ step_size # NoneArg

(* C4: a downward ray whose origin.z is <= the minimum grid sample fails   *)
(* without marching.                                                       *)
C4_CameraBelowGroundFails ==
    (PastValidation /\ ray_direction.z < 0
     /\ ray_origin.z <= dem_min_elevation(dem))
    => /\ Returned
       /\ ~result.ok
       /\ i = 0
       /\ queries = 0

C4_Witness ==
    /\ pc = "returned"
    /\ ray_direction.z < 0
    /\ ray_origin.z = dem_min_elevation(dem)
    /\ ~result.ok

(* C5: when a march sample taken before any crossing lies outside the      *)
(* world bounds, or has no elevation, the call fails; no earlier sample    *)
(* is returned.                                                            *)
C5_LeavingBoundsFails ==
    (/\ i > 0
     /\ bracket = << >>
     /\ ~get_elevation_at_point(dem, current_point.x, current_point.y).ok)
    => /\ Returned
       /\ ~result.ok

C5_Witness ==
    /\ pc = "returned"
    /\ i > 1
    /\ prev_point.ok
    /\ ~InBounds(dem, current_point.x, current_point.y)
    /\ ~result.ok

(* C6: when the march has made max_steps steps and none found the ray at   *)
(* or below the ground, the call fails, as for a ray that left the bounds. *)
C6_BudgetExhaustedFails ==
    (/\ Returned
     /\ bracket = << >>
     /\ i = budget
     /\ \A k \in 1..i :
           LET p == MarchSample(k)
               g == get_elevation_at_point(dem, p.x, p.y)
           IN  g.ok /\ p.z > g.v)
    => result = NoPoint

C6_Witness ==
    /\ pc = "returned"
    /\ ret = "budget"
    /\ i = budget
    /\ i > 1
    /\ ~result.ok

(* C7 as stated: every call that returns a point went through validation,  *)
(* then the coarse march, then bisection refinement, in that order.        *)
C7_ThreePhasesInOrder ==
    (Returned /\ result.ok) => phases = <<"validate", "march", "bisect">>

Between(a, lo, hi) == Min(lo, hi) <= a /\ a <= Max(lo, hi)

AboveTerrain(p) ==
    LET g == get_elevation_at_point(dem, p.x, p.y) IN g.ok /\ p.z > g.v

(* the ray sampled every eighth of a coarse step *)
RaySample(j) ==
    LET sv == StepVec(direction, step_size_coarse)
    IN  Vec(ray_origin.x + j * (sv.x \div 8), ray_origin.y + j * (sv.y \div 8),
            ray_origin.z + j * (sv.z \div 8))

(* C8 as stated: a returned point is the first crossing: from an origin    *)
(* above the terrain, no point of the ray before the returned point lies   *)
(* below the interpolated terrain.                                         *)
C8_FirstCrossing ==
    (Returned /\ result.ok /\ AboveTerrain(ray_origin))
    => \A j \in 1..(8 * (i - 1)) :
          LET p == RaySample(j)
              g == get_elevation_at_point(dem, p.x, p.y)
          IN  g.ok /\ p.z >= g.v

(* C8 amended: a returned point lies in the first coarse step whose end    *)
(* sample is at or below the terrain: every earlier march sample is        *)
(* strictly above the terrain at its (x, y), the end sample is not, and    *)
(* the returned (x, y) is on the ray between the two samples (at the end   *)
(* sample when the first step already crosses).  Terrain between samples   *)
(* is not examined.                                                        *)
C8_FirstSampledCrossing ==
    (Returned /\ result.ok)
    => /\ i >= 1
       /\ \A k \in 1..(i - 1) : AboveTerrain(MarchSample(k))
       /\ current_point = MarchSample(i)
       /\ ~AboveTerrain(MarchSample(i))
       /\ InBounds(dem, current_point.x, current_point.y)
       /\ IF i = 1
          THEN result.x = MarchSample(1).x /\ result.y = MarchSample(1).y
          ELSE /\ Between(result.x, MarchSample(i - 1).x, MarchSample(i).x)
               /\ Between(result.y, MarchSample(i - 1).y, MarchSample(i).y)
               /\ (result.x - ray_origin.x) * direction.y
                    = (result.y - ray_origin.y) * direction.x

C8_Witness ==
    /\ pc = "returned"
    /\ result.ok
    /\ i > 1
    /\ AboveTerrain(ray_origin)
    /\ \E j \in 1..(8 * (i - 1)) : ~AboveTerrain(RaySample(j))

(* C9 as stated: bisection evaluates the terrain at no more than 10        *)
(* midpoints, and a return through the convergence test gives              *)
(* (mid.x, mid.y, terrain(mid)) with |mid.z - terrain(mid)| < 0.1.         *)
ConvergedReturnIsMidpoint ==
    ret = "converged"
    => LET e == get_elevation_at_point(dem, mid_point.x, mid_point.y)
       IN  /\ e.ok
           /\ result = Point(mid_point.x, mid_point.y, e.v)
           /\ 10 * Abs(mid_point.z - e.v) < SUB
           /\ mid_point = Midpoint(point1, point2)
           /\ Between(mid_point.x, bracket[1].x, bracket[2].x)
           /\ Between(mid_point.y, bracket[1].y, bracket[2].y)
           /\ Between(mid_point.z, bracket[1].z, bracket[2].z)

C9_AtMostTenEvaluations ==
    /\ evals <= 10
    /\ ConvergedReturnIsMidpoint

(* C9 amended: the bisection loop runs at most 10 iterations, one terrain  *)
(* evaluation each, and the final estimate after an exhausted loop         *)
(* evaluates one more midpoint, so at most 11 midpoints are evaluated; a   *)
(* return through the convergence test gives (mid.x, mid.y, terrain(mid))  *)
(* with |mid.z - terrain(mid)| < 0.1.                                      *)
C9_AtMostElevenEvaluations ==
    /\ iteration <= 10
    /\ evals <= 11
    /\ (pc = "bisect" => evals = iteration)
    /\ (ret = "estimate" => evals = iteration + 1)
    /\ ConvergedReturnIsMidpoint

C9_Witness ==
    /\ pc = "returned"
    /\ ret = "converged"
    /\ iteration > 2
    /\ ~IsFlat(dem)

(* C10: once the march has bracketed a crossing the call returns a point;  *)
(* a bisection that used its 10 iterations without meeting the tolerance   *)
(* returns the estimate at the midpoint of the final bracket: its (x, y),  *)
(* with the terrain elevation there (or the midpoint's own z) as z.        *)
C10_BracketAlwaysYieldsPoint ==
    /\ bracket # << >> => (pc = "bisect" \/ (Returned /\ result.ok))
    /\ ret = "estimate"
       => LET fp == Midpoint(point1, point2)
              fe == get_elevation_at_point(dem, fp.x, fp.y)
          IN  /\ iteration = 10
              /\ result.ok
              /\ result.x = fp.x
              /\ result.y = fp.y
              /\ result.z = fp.z \/ (fe.ok /\ result.z = fe.v)

C10_Witness ==
    /\ pc = "returned"
    /\ ret = "estimate"
    /\ iteration = 10
    /\ result.ok
    /\ 10 * Abs(mid_point.z - mid_elev.v) >= SUB

----------------------------------------------------------------------------
(* Elevation queries: get_elevation_at_point and get_elevation_batch *)

MaxBatch == 2

(* the intersector and georeference_point are not running *)
IdleRay ==
    /\ ray_origin = Vec(0, 0, 0)
    /\ ray_direction = Dir(0, 0, 0, 1, FALSE)
    /\ step_size = NoneArg
    /\ max_steps = NoneArg
    /\ step_size_coarse = 0
    /\ i = 0
    /\ current_point = Vec(0, 0, 0)
    /\ prev_point = NoPoint
    /\ prev_elevation = NoElev
    /\ ground_elevation = NoElev
    /\ point1 = Vec(0, 0, 0)
    /\ point2 = Vec(0, 0, 0)
    /\ elev1 = 0
    /\ elev2 = 0
    /\ iteration = 0
    /\ direction = Dir(0, 0, 0, 1, FALSE)
    /\ budget = 0
    /\ mid_point = Vec(0, 0, 0)
    /\ mid_elev = NoElev
    /\ result = NoPoint
    /\ ret = "none"
    /\ geo = NoGeo
    /\ queries = 0
    /\ evals = 0
    /\ phases = << >>
    /\ bracket = << >>
    /\ round = 1
    /\ first_result = NoPoint
    /\ first_ret = "none"

rayvars == <<ray_origin, ray_direction, step_size, max_steps, step_size_coarse,
             i, current_point, prev_point, prev_elevation, ground_elevation,
             point1, point2, elev1, elev2, iteration, direction, budget,
             mid_point, mid_elev, result, ret, geo, queries, evals, phases,
             bracket, round, first_result, first_ret>>

(* query points on, just inside and just outside the world bounds *)
QueryXs(d) ==
    LET b == dem_bounds(d)
    IN  {b.min_x - 1, b.min_x, b.min_x + d.a, (b.min_x + b.max_x) \div 2,
         b.max_x, b.max_x + 1}
QueryYs(d) ==
    LET b == dem_bounds(d)
    IN  {b.min_y - 1, b.min_y, b.min_y - d.e, b.max_y, b.max_y + 1}
QueryPoints(d) == {[x |-> x, y |-> y] : x \in QueryXs(d), y \in QueryYs(d)}
BatchPoints(d) ==
    LET b == dem_bounds(d)
    IN  {[x |-> x, y |-> y] :
            x \in {b.min_x - 1, b.min_x + 3 * d.a, b.max_x},
            y \in {b.min_y, b.min_y - d.e, b.max_y + 1}}

RECURSIVE SeqsUpTo(_, _)
SeqsUpTo(S, n) ==
    IF n = 0 THEN {<< >>}
    ELSE LET shorter == SeqsUpTo(S, n - 1)
         IN  shorter \cup {Append(q, e) : q \in shorter, e \in S}

ElevDems == SmallDems \cup BigDems

InitElev ==
    /\ dem \in ElevDems
    /\ \/ /\ entry \in {"get_elevation_at_point", "manual_bilinear"}
          /\ \E p \in QueryPoints(dem) : points = <<p>>
       \/ /\ entry = "get_elevation_batch"
          /\ points \in SeqsUpTo(BatchPoints(dem), MaxBatch)
    /\ pc = "query"
    /\ camera = NoCamera
    /\ pixel = <<0, 0>>
    /\ IdleRay
    /\ IdleExt
    /\ elevations = << >>
    /\ world_points = << >>
    /\ image_points = << >>
    /\ valid_mask = << >>
    /\ uv = NoPixel
    /\ ground_arg = 0
    /\ corner = 0
    /\ footprint = << >>
    /\ coverage_radius = 0

(* get_elevation_at_point, lines 106-119 *)
ElevationAtPoint ==
    /\ UNCHANGED extvars
    /\ pc = "query"
    /\ entry = "get_elevation_at_point"
    /\ elevations' = <<get_elevation_at_point(dem, points[1].x, points[1].y)>>
    /\ pc' = "answered"
    /\ UNCHANGED <<entry, camera, pixel, dem, rayvars, points, world_points,
                   image_points, valid_mask, uv, ground_arg, corner, footprint,
                   coverage_radius>>

(* get_elevation_at_point of an engine whose interpolator is None,         *)
(* lines 106-114 and 121-141                                               *)
ElevationFallback ==
    /\ UNCHANGED extvars
    /\ pc = "query"
    /\ entry = "manual_bilinear"
    /\ elevations' = <<manual_bilinear(dem, points[1].x, points[1].y)>>
    /\ pc' = "answered"
    /\ UNCHANGED <<entry, camera, pixel, dem, rayvars, points, world_points,
                   image_points, valid_mask, uv, ground_arg, corner, footprint,
                   coverage_radius>>

(* get_elevation_batch, lines 153-164 *)
ElevationBatch ==
    /\ UNCHANGED extvars
    /\ pc = "query"
    /\ entry = "get_elevation_batch"
    /\ elevations' = get_elevation_batch(dem, points)
    /\ pc' = "answered"
    /\ UNCHANGED <<entry, camera, pixel, dem, rayvars, points, world_points,
                   image_points, valid_mask, uv, ground_arg, corner, footprint,
                   coverage_radius>>

NextElev ==
    \/ ElevationAtPoint
    \/ ElevationFallback
    \/ ElevationBatch

SpecElev == InitElev /\ [][NextElev]_vars

WithinWorldBounds(d, p) ==
    /\ d.c <= p.x /\ p.x <= d.c + d.a * d.w
    /\ d.f + d.e * d.h <= p.y /\ p.y <= d.f

(* C11: over a grid whose samples all equal E, get_elevation_at_point      *)
(* returns E at every (x, y) with min_x <= x <= max_x and                  *)
(* min_y <= y <= max_y, the boundary included, and null outside.           *)
C11_FlatGridElevation ==
    (pc = "answered" /\ entry = "get_elevation_at_point" /\ IsFlat(dem))
    => /\ Len(elevations) = 1
       /\ IF WithinWorldBounds(dem, points[1])
          THEN elevations[1] = [ok |-> TRUE, v |-> dem.z[0][0]]
          ELSE elevations[1] = [ok |-> FALSE, v |-> 0]

C11_Witness ==
    /\ pc = "answered"
    /\ entry = "get_elevation_at_point"
    /\ IsFlat(dem)
    /\ dem.z[0][0] # 0
    /\ points[1].x = dem.c + dem.a * dem.w
    /\ points[1].y = dem.f
    /\ elevations[1].ok

(* C12: an elevation of exactly 0 is a value, not an absence: the z of an  *)
(* intersection returned over terrain of elevation 0 is 0.                 *)
C12_ZeroElevationIsAValue ==
    (Returned /\ result.ok)
    => LET g == get_elevation_at_point(dem, result.x, result.y)
       IN  (g.ok /\ g.v = 0) => result.z = 0

(* C13: get_elevation_batch returns one value per point, in input order,   *)
(* each equal to get_elevation_at_point of that point (NaN where that is   *)
(* absent); equal points get equal values.                                 *)
C13_BatchMatchesSingle ==
    (pc = "answered" /\ entry = "get_elevation_batch")
    => /\ Len(elevations) = Len(points)
       /\ \A k \in 1..Len(points) :
             elevations[k] = get_elevation_at_point(dem, points[k].x, points[k].y)
       /\ \A j, k \in 1..Len(points) :
             points[j] = points[k] => elevations[j] = elevations[k]

C13_Witness ==
    /\ pc = "answered"
    /\ entry = "get_elevation_batch"
    /\ Len(points) = 2
    /\ points[1] # points[2]
    /\ elevations[1].ok
    /\ ~elevations[2].ok
    /\ ~IsFlat(dem)

----------------------------------------------------------------------------
(* Camera operations: pixel_to_ray followed by world_to_pixel,             *)
(* project_points_batch, world_to_pixel and compute_ground_coverage        *)

MaxPts == 2
MaxT == 2

Attitudes == {-90, 0, 90, 180}

(* a 8 x 6 sensor, focal length 4 px, principal point at the centre *)
SmallCamera(roll, pitch, yaw) ==
    [f_px |-> 4, w_px |-> 8, h_px |-> 6, cx |-> 4, cy |-> 3,
     pos |-> Vec(M(8), M(1), M(2)), roll |-> roll, pitch |-> pitch, yaw |-> yaw]

RoundTripCameras ==
    {SmallCamera(r, p, y) : r \in Attitudes, p \in Attitudes, y \in Attitudes}
BatchCameras ==
    {SmallCamera(r, p, y) : r \in {0, -90}, p \in Attitudes, y \in {0, 90}}
CoverageCameras == RoundTripCameras

(* pixels strictly inside the sensor bounds *)
InnerPixels(cam) ==
    {<<u, v>> : u \in 1..(cam.w_px - 1), v \in 1..(cam.h_px - 1)}

(* world points in view, on the sensor's edges, outside it, in the         *)
(* camera's plane and behind it (for the attitude 0, 0, 0)                 *)
Offsets ==
    {Vec(0, 0, -4), Vec(3, 0, -4), Vec(4, 0, -4), Vec(-4, 0, -4),
     Vec(1, 1, -3), Vec(0, -3, -4), Vec(5, 2, 0), Vec(0, 0, 4)}
WorldPoints(cam) ==
    {Vec(cam.pos.x + M(o.x), cam.pos.y + M(o.y), cam.pos.z + M(o.z)) :
        o \in Offsets}

(* ground planes below, at and above the camera *)
GroundArgs == {M(0), M(1), M(2), M(3)}

InitCam ==
    /\ dem = SmallGrid(FlatZero)
    /\ IdleRay
    /\ IdleExt
    /\ points = << >>
    /\ elevations = << >>
    /\ image_points = << >>
    /\ valid_mask = << >>
    /\ uv = NoPixel
    /\ corner = 0
    /\ footprint = << >>
    /\ coverage_radius = 0
    /\ \/ /\ entry = "round_trip"
          /\ camera \in RoundTripCameras
          /\ pixel \in InnerPixels(camera)
          /\ world_points = << >>
          /\ ground_arg = 0
          /\ pc = "cam_ray"
       \/ /\ entry = "project_points_batch"
          /\ camera \in BatchCameras
          /\ pixel = <<0, 0>>
          /\ world_points \in SeqsUpTo(WorldPoints(camera), MaxPts)
          /\ ground_arg = 0
          /\ pc = "project"
       \/ /\ entry = "compute_ground_coverage"
          /\ camera \in CoverageCameras
          /\ pixel = <<0, 0>>
          /\ world_points = << >>
          /\ ground_arg \in GroundArgs
          /\ pc = "coverage"

camvars == <<entry, camera, dem, rayvars, points, elevations>>

(* pixel_to_ray, lines 64-80, and a point origin + t * direction, t > 0 *)
RayPoint ==
    /\ UNCHANGED extvars
    /\ pc = "cam_ray"
    /\ LET ray == pixel_to_ray(camera, pixel)
       IN  \E k \in 1..MaxT :
              world_points' = <<Vec(ray.origin.x + k * SUB * ray.dir.x,
                                    ray.origin.y + k * SUB * ray.dir.y,
                                    ray.origin.z + k * SUB * ray.dir.z)>>
    /\ pc' = "project"
    /\ UNCHANGED <<camvars, pixel, image_points, valid_mask, uv, ground_arg,
                   corner, footprint, coverage_radius>>

(* world_to_pixel, lines 152-170, of the first point *)
WorldToPixel ==
    /\ UNCHANGED extvars
    /\ pc \in {"project", "batch_done"}
    /\ Len(world_points) >= 1
    /\ uv' = world_to_pixel(camera, world_points[1])
    /\ pc' = IF pc = "project" THEN "single_done" ELSE "both_done"
    /\ UNCHANGED <<camvars, pixel, world_points, image_points, valid_mask,
                   ground_arg, corner, footprint, coverage_radius>>

(* project_points_batch, lines 104-150 *)
ProjectPointsBatch ==
    /\ UNCHANGED extvars
    /\ pc \in {"project", "single_done"}
    /\ LET r == project_points_batch(camera, world_points)
       IN  /\ image_points' = r.image_points
           /\ valid_mask' = r.valid_mask
    /\ pc' = IF pc = "project" THEN "batch_done" ELSE "both_done"
    /\ UNCHANGED <<camvars, pixel, world_points, uv, ground_arg, corner,
                   footprint, coverage_radius>>

(* compute_ground_coverage, lines 188-192: the height check *)
CoverageStart ==
    /\ UNCHANGED extvars
    /\ pc = "coverage"
    /\ LET height_agl == camera.pos.z - ground_arg
       IN  IF height_agl <= 0
           THEN /\ pc' = "covered"
                /\ corner' = 0
           ELSE /\ pc' = "corners"
                /\ corner' = 1
    /\ footprint' = << >>
    /\ coverage_radius' = 0
    /\ UNCHANGED <<camvars, pixel, world_points, image_points, valid_mask, uv,
                   ground_arg>>

(* lines 206-231: one image corner *)
CoverageCorner ==
    /\ UNCHANGED extvars
    /\ pc = "corners"
    /\ corner <= 4
    /\ LET ray == pixel_to_ray(camera, image_corners(camera)[corner])
       IN  IF \/ ray_parallel_to_ground(ray.dir)
              \/ intersection_behind_camera(ray.origin, ray.dir, ground_arg)
           THEN footprint' = footprint
           ELSE footprint' = Append(footprint,
                    intersection_point(ray.origin, ray.dir, ground_arg))
    /\ corner' = corner + 1
    /\ UNCHANGED <<camvars, pc, pixel, world_points, image_points, valid_mask,
                   uv, ground_arg, coverage_radius>>

(* lines 234-245 *)
CoverageReturn ==
    /\ UNCHANGED extvars
    /\ pc = "corners"
    /\ corner = 5
    /\ LET r == coverage_result(footprint)
       IN  /\ footprint' = r.footprint
           /\ coverage_radius' = r.coverage_radius
    /\ pc' = "covered"
    /\ UNCHANGED <<camvars, pixel, world_points, image_points, valid_mask, uv,
                   ground_arg, corner>>

NextCam ==
    \/ RayPoint
    \/ WorldToPixel
    \/ ProjectPointsBatch
    \/ CoverageStart
    \/ CoverageCorner
    \/ CoverageReturn

SpecCam == InitCam /\ [][NextCam]_vars

(* C14: for every pixel strictly inside the sensor bounds, every attitude  *)
(* and every t > 0, world_to_pixel of origin + t * direction, the ray      *)
(* being pixel_to_ray of the pixel, returns that pixel and never null.     *)
C14_RoundTrip ==
    (entry = "round_trip" /\ pc \in {"single_done", "both_done"})
    => uv = [ok |-> TRUE, u |-> [n |-> pixel[1], d |-> 1],
             v |-> [n |-> pixel[2], d |-> 1]]

C14_Witness ==
    /\ entry = "round_trip"
    /\ pc = "single_done"
    /\ camera.pitch = 90 /\ camera.roll = -90 /\ camera.yaw = 180
    /\ pixel = <<1, 5>>
    /\ world_points[1] # camera.pos
    /\ uv.ok

(* the fraction a equals num / den, den > 0 *)
FracIs(a, num, den) == a.d > 0 /\ a.n * den = num * a.d

(* the projection (f*X/Z + cx, cy - f*Y/Z) of the camera-frame point q,    *)
(* Z > 0, lies in [0, width) x [0, height)                                 *)
ProjectsInsideSensor(cam, q) ==
    /\ 0 <= cam.f_px * q.x + cam.cx * q.z
    /\ cam.f_px * q.x + cam.cx * q.z < cam.w_px * q.z
    /\ 0 <= cam.cy * q.z - cam.f_px * q.y
    /\ cam.cy * q.z - cam.f_px * q.y < cam.h_px * q.z

BatchDone == pc \in {"batch_done", "both_done"}

(* C15: project_points_batch returns, for each input point in input order, *)
(* valid = true exactly when the point's camera-frame Z is > 0 and its     *)
(* projection (f*X/Z + cx, cy - f*Y/Z) is in [0, width) x [0, height); the *)
(* pixel is that projection when valid and (0, 0) when not.                *)
C15_BatchValidity ==
    BatchDone
    => /\ Len(image_points) = Len(world_points)
       /\ Len(valid_mask) = Len(world_points)
       /\ \A k \in 1..Len(world_points) :
             LET q == world_to_camera(camera, world_points[k])
                 valid == q.z > 0 /\ ProjectsInsideSensor(camera, q)
             IN  /\ valid_mask[k] = valid
                 /\ IF valid
                    THEN /\ FracIs(image_points[k][1],
                                   camera.f_px * q.x + camera.cx * q.z, q.z)
                         /\ FracIs(image_points[k][2],
                                   camera.cy * q.z - camera.f_px * q.y, q.z)
                    ELSE image_points[k] = <<Whole(0), Whole(0)>>

C15_Witness ==
    /\ BatchDone
    /\ entry = "project_points_batch"
    /\ Len(world_points) = 2
    /\ ~valid_mask[1]
    /\ world_to_camera(camera, world_points[1]).z <= 0
    /\ valid_mask[2]
    /\ image_points[2][1].d # 1

(* C16: world_to_pixel is the single-point version of                      *)
(* project_points_batch: world_to_pixel(p) is null exactly when            *)
(* project_points_batch([p]) marks p invalid, and otherwise both return    *)
(* the same pixel.                                                         *)
C16_SingleMatchesBatch ==
    (pc = "both_done" /\ Len(world_points) = 1)
    => /\ uv.ok = valid_mask[1]
       /\ uv.ok => (uv.u = image_points[1][1] /\ uv.v = image_points[1][2])

C16_Witness ==
    /\ pc = "both_done"
    /\ entry = "project_points_batch"
    /\ Len(world_points) = 1
    /\ uv.ok
    /\ uv.u = Whole(0)

(* the image corners top-left, top-right, bottom-right, bottom-left *)
CornerPixels(cam) ==
    << <<0, 0>>, <<cam.w_px - 1, 0>>, <<cam.w_px - 1, cam.h_px - 1>>,
       <<0, cam.h_px - 1>> >>
CornerRay(cam, c) == pixel_to_ray(cam, CornerPixels(cam)[c]).dir

(* |direction.z| < 1e-9, or t = (E - origin.z) / direction.z < 0 *)
CornerFails(cam, c, E) ==
    \/ CornerRay(cam, c).z = 0
    \/ (E - cam.pos.z) * CornerRay(cam, c).z < 0

(* the vertex v is where the corner ray c meets the plane z = E, to within *)
(* one sub-unit                                                            *)
OnCornerRay(cam, c, E, v) ==
    LET d == CornerRay(cam, c)
        H == cam.pos.z - E
    IN  /\ d.z < 0
        /\ Abs((v.x - cam.pos.x) * (-d.z) - H * d.x) < -d.z
        /\ Abs((v.y - cam.pos.y) * (-d.z) - H * d.y) < -d.z

Covered == pc = "covered"

(* C17: compute_ground_coverage returns either exactly 4 vertices, in the  *)
(* order top-left, top-right, bottom-right, bottom-left image corner, or   *)
(* the empty footprint with radius 0; it returns the empty footprint       *)
(* whenever the camera z is <= ground_elevation and whenever a corner ray  *)
(* has |direction.z| < 1e-9 or t < 0; never 1, 2 or 3 vertices.            *)
C17_FourVerticesOrEmpty ==
    Covered
    => /\ Len(footprint) \in {0, 4}
       /\ Len(footprint) = 0 => coverage_radius = 0
       /\ camera.pos.z <= ground_arg => footprint = << >>
       /\ (\E c \in 1..4 : CornerFails(camera, c, ground_arg))
              => footprint = << >>
       /\ Len(footprint) = 4
              => \A c \in 1..4 : OnCornerRay(camera, c, ground_arg, footprint[c])

C17_Witness ==
    /\ Covered
    /\ camera.pos.z > ground_arg
    /\ CornerFails(camera, 2, ground_arg)
    /\ ~CornerFails(camera, 1, ground_arg)
    /\ footprint = << >>
    /\ coverage_radius = 0

PrincipalPointCentred(cam) == 2 * cam.cx = cam.w_px /\ 2 * cam.cy = cam.h_px

IsRectangle(fp) ==
    /\ fp[1].y = fp[2].y /\ fp[3].y = fp[4].y /\ fp[1].y # fp[4].y
    /\ fp[1].x = fp[4].x /\ fp[2].x = fp[3].x /\ fp[1].x # fp[2].x

OppositeCornersMirror(fp) ==
    /\ fp[1].x + fp[3].x = fp[2].x + fp[4].x
    /\ fp[1].y + fp[3].y = fp[2].y + fp[4].y

(* C18 as stated: with pitch -90 (roll 0, yaw 0), the principal point at   *)
(* the sensor centre and camera z > E, compute_ground_coverage(E) returns  *)
(* a non-empty rectangular footprint whose centroid is the nadir point     *)
(* and whose opposite corners are mirror images through it.                *)
C18_PitchMinus90Symmetric ==
    (/\ Covered
     /\ camera.roll = 0 /\ camera.pitch = -90 /\ camera.yaw = 0
     /\ PrincipalPointCentred(camera)
     /\ camera.pos.z > ground_arg)
    => /\ Len(footprint) = 4
       /\ IsRectangle(footprint)
       /\ footprint[1].x + footprint[3].x = 2 * camera.pos.x
       /\ footprint[1].y + footprint[3].y = 2 * camera.pos.y
       /\ footprint[2].x + footprint[4].x = 2 * camera.pos.x
       /\ footprint[2].y + footprint[4].y = 2 * camera.pos.y

(* C18: with pitch 0 (roll 0, yaw 0), the principal point at the sensor    *)
(* centre (w/2, h/2) and camera z > E, the footprint is a non-empty        *)
(* axis-aligned rectangle whose opposite corners are mirror images through *)
(* its centroid, and the centroid is the nadir point moved by half a       *)
(* ground pixel, (z - E) / (2 f), towards -x and -y; with pitch -90 the    *)
(* footprint is empty.                                                     *)
C18_PitchZeroFootprint ==
    (/\ Covered
     /\ camera.roll = 0 /\ camera.yaw = 0
     /\ PrincipalPointCentred(camera)
     /\ camera.pos.z > ground_arg)
    => /\ camera.pitch = 0
          => /\ Len(footprint) = 4
             /\ IsRectangle(footprint)
             /\ OppositeCornersMirror(footprint)
             /\ (footprint[1].x + footprint[3].x - 2 * camera.pos.x) * camera.f_px
                    = -(camera.pos.z - ground_arg)
             /\ (footprint[1].y + footprint[3].y - 2 * camera.pos.y) * camera.f_px
                    = -(camera.pos.z - ground_arg)
       /\ camera.pitch = -90 => footprint = << >>

C18_Witness ==
    /\ Covered
    /\ camera.roll = 0 /\ camera.pitch = 0 /\ camera.yaw = 0
    /\ PrincipalPointCentred(camera)
    /\ camera.pos.z = ground_arg + M(2)
    /\ Len(footprint) = 4
    /\ coverage_radius > 0

----------------------------------------------------------------------------
(* georeference_point's result and the kernel's frame *)

(* C19: georeference_point returns success = true with world_x, world_y    *)
(* and world_z all present exactly when intersect_ray_with_dem returns a   *)
(* point for the pixel's ray, and success = false with all three absent    *)
(* otherwise; never success with a missing coordinate or failure with one. *)
C19_SuccessIffPoint ==
    (pc = "done" /\ entry = "georeference_point")
    => /\ geo.success = result.ok
       /\ geo.success
            => /\ geo.world_x = [ok |-> TRUE, v |-> result.x]
               /\ geo.world_y = [ok |-> TRUE, v |-> result.y]
               /\ geo.world_z = [ok |-> TRUE, v |-> result.z]
       /\ ~geo.success
            => /\ ~geo.world_x.ok
               /\ ~geo.world_y.ok
               /\ ~geo.world_z.ok

C19_Witness ==
    /\ pc = "done"
    /\ entry = "georeference_point"
    /\ ray_direction = pixel_to_ray(camera, pixel).dir
    /\ result.ok
    /\ geo.success
    /\ geo.world_z.ok

(* Every operation of the kernel, on one engine and one camera *)
InitKernel == Init \/ InitElev \/ InitCam
NextKernel == Next \/ NextElev \/ NextCam
SpecKernel == InitKernel /\ [][NextKernel]_vars

(* the arrays the caller passed: the ray of intersect_ray_with_dem, the    *)
(* points of the elevation queries and of the projections                  *)
CallerArraysKept ==
    /\ entry = "intersect_ray_with_dem"
          => (ray_origin' = ray_origin /\ ray_direction' = ray_direction)
    /\ points' = points
    /\ entry # "round_trip" => world_points' = world_points
    /\ pixel' = pixel

(* what the engine and the camera were constructed with *)
ConstructionKept == dem' = dem /\ camera' = camera

(* the second of two equal calls has returned what the first returned *)
RepeatedCallAgrees ==
    (round = 2 /\ Finished)
    => /\ result = first_result
       /\ ret = first_ret
       /\ entry = "georeference_point" => geo = georeference_result(first_result)

(* C20: the kernel is stateless: after any sequence of calls the engine's  *)
(* grid, transform, bounds and interpolator and the camera's rotation and  *)
(* position equal their values at construction, the caller's ray_origin    *)
(* and ray_direction arrays are unmodified, and a repeated call with the   *)
(* same arguments returns the same result.                                 *)
C20_KernelStateless ==
    /\ [][ConstructionKept /\ CallerArraysKept]_vars
    /\ []RepeatedCallAgrees

C20_Witness ==
    /\ round = 2
    /\ pc = "returned"
    /\ entry = "intersect_ray_with_dem"
    /\ ray_direction = Dir(3, 0, -4, 1, FALSE)
    /\ direction.n = 5
    /\ ret = "converged"
    /\ result.ok
    /\ result = first_result

----------------------------------------------------------------------------
(* Construction: CameraModel.__init__ and GeoreferencingEngine.__init__ *)

(* camera_params as the JSON file gives them: any number may stand in any  *)
(* field, and a required key may be missing                                *)
FocalLengths == {-1, 0, 4, 1000}
SensorWidths == {-2, 0, 8}
SensorHeights == {-2, 0, 6}

CameraParams ==
    {[kind |-> "camera", has_focal |-> hf, focal_length_px |-> fl,
      sensor_size_px |-> <<w, h>>, has_principal |-> hp,
      principal_point_px |-> <<4, 3>>, pitch |-> p] :
        hf \in BOOLEAN, fl \in FocalLengths, w \in SensorWidths,
        h \in SensorHeights, hp \in BOOLEAN, p \in {0, -90}}

(* CameraModel.__init__, lines 11-34: a missing key raises KeyError at     *)
(* line 15; no value is tested                                             *)
camera_init(cp) ==
    IF ~cp.has_focal
    THEN [ok |-> FALSE, camera |-> NoCamera]
    ELSE [ok |-> TRUE,
          camera |->
            [f_px |-> cp.focal_length_px, w_px |-> cp.sensor_size_px[1],
             h_px |-> cp.sensor_size_px[2],
             cx |-> IF cp.has_principal THEN cp.principal_point_px[1]
                    ELSE cp.sensor_size_px[1] \div 2,
             cy |-> IF cp.has_principal THEN cp.principal_point_px[2]
                    ELSE cp.sensor_size_px[2] \div 2,
             pos |-> Vec(M(8), M(1), M(2)), roll |-> 0, pitch |-> cp.pitch,
             yaw |-> 0]]

(* dem_data and dem_transform as DataLoader.load_dem or a caller give      *)
(* them: absent (None, None), empty, a single row or column, a zero pixel  *)
(* size                                                                    *)
GridWidths == {0, 1, 2, 17}
GridHeights == {0, 1, 3}
EngineParams ==
    {[kind |-> "engine", present |-> pr, w |-> w, h |-> h, a |-> a, e |-> e] :
        pr \in BOOLEAN, w \in GridWidths, h \in GridHeights,
        a \in {0, M(1)}, e \in {0, -M(1)}}

(* no engine *)
NoDem == [w |-> 0, h |-> 0, a |-> 0, e |-> 0, c |-> 0, f |-> 0, z |-> << >>]

(* GeoreferencingEngine.__init__, lines 12-38, and _create_interpolator,   *)
(* lines 40-65: line 18 inverts the transform, which raises for None and   *)
(* for a zero determinant; line 19 unpacks the shape; np.linspace and      *)
(* RegularGridInterpolator (method linear) accept axes of 0 and of 1 node  *)
engine_init(ep) ==
    IF ~ep.present THEN [ok |-> FALSE, dem |-> NoDem]
    ELSE IF ep.a * ep.e = 0 THEN [ok |-> FALSE, dem |-> NoDem]
    ELSE [ok |-> TRUE,
          dem |-> [w |-> ep.w, h |-> ep.h, a |-> ep.a, e |-> ep.e, c |-> 0,
                   f |-> -ep.e * ep.h,
                   z |-> [r \in 0..(ep.h - 1) |->
                            [col \in 0..(ep.w - 1) |-> M(2)]]]]

(* the scenes of _prepare_scene: the slope is generated, the other two are *)
(* read from files, which DataLoader.load_dem answers with (None, None)    *)
(* when it fails                                                           *)
SceneParams ==
    {[kind |-> "scene", current_scene |-> sc, load |-> ld, had_engine |-> he] :
        sc \in {"virtual_slope", "large_terrain", "complex_terrain"},
        ld \in {"ok", "failed"}, he \in BOOLEAN}

(* lines 28-35 of backend_service.py: what the scene's source hands over *)
scene_source(sp) ==
    IF sp.current_scene = "virtual_slope" \/ sp.load = "ok"
    THEN [kind |-> "engine", present |-> TRUE, w |-> 17, h |-> 3, a |-> M(1),
          e |-> -M(1)]
    ELSE [kind |-> "engine", present |-> FALSE, w |-> 0, h |-> 0, a |-> 0,
          e |-> 0]

InitBuild ==
    /\ IdleRay
    /\ IdleAux
    /\ entry = "construct"
    /\ pc = "construct"
    /\ camera = NoCamera
    /\ pixel = <<0, 0>>
    /\ built = "none"
    /\ IdleRun
    /\ IdleGui
    /\ params \in CameraParams \cup EngineParams \cup SceneParams
    /\ dem = IF params.kind = "scene" /\ params.had_engine
             THEN SmallGrid(FlatZero) ELSE NoDem

buildframe == <<entry, pixel, rayvars, auxvars, runvars, guivars>>

(* CameraModel(camera_params) *)
ConstructCamera ==
    /\ pc = "construct"
    /\ params.kind = "camera"
    /\ LET r == camera_init(params)
       IN  /\ built' = IF r.ok THEN "camera" ELSE "error"
           /\ camera' = r.camera
    /\ pc' = "constructed"
    /\ UNCHANGED <<buildframe, dem, params>>

(* GeoreferencingEngine(dem_data, dem_transform) *)
ConstructEngine ==
    /\ pc = "construct"
    /\ params.kind = "engine"
    /\ LET r == engine_init(params)
       IN  /\ built' = IF r.ok THEN "engine" ELSE "error"
           /\ dem' = r.dem
    /\ pc' = "constructed"
    /\ UNCHANGED <<buildframe, camera, params>>

(* BackendService._prepare_scene, lines 24-38, at the head of              *)
(* run_simulation_for_state: an exception of the constructor leaves        *)
(* geo_engine as it was and ends the run                                   *)
PrepareScene ==
    /\ pc = "construct"
    /\ params.kind = "scene"
    /\ LET r == engine_init(scene_source(params))
       IN  IF r.ok
           THEN /\ built' = "engine"
                /\ dem' = r.dem
                /\ pc' = "prepared"
           ELSE /\ built' = "error"
                /\ dem' = dem
                /\ pc' = "raised"
    /\ UNCHANGED <<buildframe, camera, params>>

NextBuild ==
    \/ ConstructCamera
    \/ ConstructEngine
    \/ PrepareScene

SpecBuild == InitBuild /\ [][NextBuild]_vars

(* C21: every camera model that construction returns has focal length > 0  *)
(* and sensor width and height > 0; construction with a non-positive       *)
(* focal length or sensor dimension fails instead of producing a camera.   *)
C21_CameraHasPositiveIntrinsics ==
    built = "camera"
    => (camera.f_px > 0 /\ camera.w_px > 0 /\ camera.h_px > 0)

(* the grid has at least two rows and two columns and the transform is     *)
(* invertible                                                              *)
UsableGrid(d) == d.w >= 2 /\ d.h >= 2 /\ d.a # 0 /\ d.e # 0

(* C22: constructing the engine with an absent, empty or degenerate grid,  *)
(* or with a non-invertible transform, fails at construction and produces  *)
(* no engine; in a simulation run the failure surfaces as an error, not as *)
(* a result from a degraded or previously built engine.                    *)
C22_EngineRefusesBadGrid ==
    /\ built = "engine" => UsableGrid(dem)
    /\ (pc = "constructed" /\ params.kind = "engine"
        /\ (~params.present \/ params.w < 2 \/ params.h < 2
            \/ params.a = 0 \/ params.e = 0))
       => built = "error"
    /\ (params.kind = "scene" /\ pc \in {"prepared", "raised"}
        /\ ~scene_source(params).present)
       => (pc = "raised" /\ built = "error")

----------------------------------------------------------------------------
(* BackendService._process_camera: the pixels of one camera *)

MaxPixels == 2

(* f = 400 px, sensor 1000 x 1000, 500 m above the flat 100 m grid, over   *)
(* its middle or 200 m from its east edge                                  *)
RunCameras ==
    {[f_px |-> 400, w_px |-> 1000, h_px |-> 1000, cx |-> 500, cy |-> 500,
      pos |-> Vec(M(x), M(500), M(600)),
      roll |-> 0, pitch |-> p, yaw |-> 0] : x \in {500, 800}, p \in {-90, 0}}
RunPixels == {<<500, 500>>, <<200, 500>>, <<800, 500>>}

(* the camera-nadir elevation or state.custom_ref_elevation, which may lie *)
(* above the camera                                                        *)
ReferenceElevations == {M(100), M(700)}

InitRun ==
    /\ IdleRay
    /\ IdleAux
    /\ IdleGui
    /\ params = NoParams
    /\ built = "none"
    /\ entry \in {"_process_camera", "_process_pixels_batch"}
    /\ dem = BigGrid(FlatHundred)
    /\ camera \in RunCameras
    /\ pixel = <<0, 0>>
    /\ pixels_list \in SeqsUpTo(RunPixels, MaxPixels)
    /\ reference_elevation \in ReferenceElevations
    /\ px_index = 1
    /\ results = << >>
    /\ outcomes = << >>
    /\ pc = "next_pixel"

(* a call starts with fresh locals *)
FreshLocals ==
    /\ ray_origin' = Vec(0, 0, 0)
    /\ ray_direction' = Dir(0, 0, 0, 1, FALSE)
    /\ direction' = Dir(0, 0, 0, 1, FALSE)
    /\ step_size_coarse' = 0
    /\ i' = 0
    /\ current_point' = Vec(0, 0, 0)
    /\ prev_point' = NoPoint
    /\ prev_elevation' = NoElev
    /\ ground_elevation' = NoElev
    /\ point1' = Vec(0, 0, 0)
    /\ point2' = Vec(0, 0, 0)
    /\ elev1' = 0
    /\ elev2' = 0
    /\ iteration' = 0
    /\ budget' = 0
    /\ mid_point' = Vec(0, 0, 0)
    /\ mid_elev' = NoElev
    /\ result' = NoPoint
    /\ ret' = "none"
    /\ geo' = NoGeo
    /\ queries' = 0
    /\ evals' = 0
    /\ phases' = << >>
    /\ bracket' = << >>

(* lines 118-120: the next pixel goes to georeference_point *)
NextPixel ==
    /\ pc = "next_pixel"
    /\ px_index <= Len(pixels_list)
    /\ pixel' = pixels_list[px_index]
    /\ FreshLocals
    /\ pc' = "pixel_to_ray"
    /\ UNCHANGED <<entry, camera, dem, step_size, max_steps, auxvars, repvars,
                   params, built, runvars,
                   guivars>>

(* lines 127-129: ray_origin + t * ray_dir on the reference plane *)
planar_projection(origin, dir, ref) ==
    LET num == origin.z - ref
        den == -dir.z
    IN  [x |-> origin.x + (num * dir.x) \div den,
         y |-> origin.y + (num * dir.y) \div den]

(* line 125: abs(ray_dir[2]) < 1e-9, and lines 127-128: t < 0 *)
planar_rejected(origin, dir, ref) ==
    \/ dir.z = 0
    \/ (ref - origin.z) * dir.z < 0

(* lines 121, 125 and 128: `continue` goes on with the next pixel *)
after_skipped_pixel_abort(index, pixels) == Len(pixels) + 1
after_skipped_pixel(index, pixels) == index + 1

(* lines 120-136: the rest of the loop body for the pixel *)
ProcessPixel ==
    /\ pc = "done"
    /\ entry = "_process_camera"
    /\ outcomes' = Append(outcomes, geo)
    /\ LET ray == pixel_to_ray(camera, pixel)
       IN  IF ~geo.success
           THEN /\ results' = results
                /\ px_index' = after_skipped_pixel(px_index, pixels_list)
           ELSE IF planar_rejected(ray.origin, ray.dir, reference_elevation)
           THEN /\ results' = results
                /\ px_index' = after_skipped_pixel(px_index, pixels_list)
           ELSE /\ results' = Append(results,
                       [pixel |-> pixel,
                        slope_projection |->
                            Vec(geo.world_x.v, geo.world_y.v, geo.world_z.v),
                        planar_projection |->
                            planar_projection(ray.origin, ray.dir,
                                              reference_elevation)])
                /\ px_index' = px_index + 1
    /\ pc' = "next_pixel"
    /\ UNCHANGED <<entry, camera, pixel, dem, rayvars, auxvars, params, built, guivars,
                   pixels_list, reference_elevation>>

(* line 137: return results *)
ProcessReturn ==
    /\ pc = "next_pixel"
    /\ entry = "_process_camera"
    /\ px_index > Len(pixels_list)
    /\ pc' = "processed"
    /\ UNCHANGED <<entry, camera, pixel, dem, rayvars, auxvars, extvars>>

(* _process_pixels_batch, lines 155-166: the first phase keeps the pixels  *)
(* that georeference_point answered with success                           *)
CollectPixel ==
    /\ pc = "done"
    /\ entry = "_process_pixels_batch"
    /\ outcomes' = Append(outcomes, geo)
    /\ results' = IF geo.success
                  THEN Append(results,
                         [pixel |-> pixel,
                          slope_projection |->
                              Vec(geo.world_x.v, geo.world_y.v, geo.world_z.v),
                          planar_projection |-> [x |-> 0, y |-> 0]])
                  ELSE results
    /\ px_index' = px_index + 1
    /\ pc' = "next_pixel"
    /\ UNCHANGED <<entry, camera, pixel, dem, rayvars, auxvars, params, built, guivars,
                   pixels_list, reference_elevation>>

(* lines 168-218: the second phase projects the kept pixels on the         *)
(* reference plane (None where rejected), the third drops the None ones    *)
batch_results(cam, valid, ref) ==
    LET ray(k) == pixel_to_ray(cam, valid[k].pixel)
        kept == SelectSeq([k \in 1..Len(valid) |-> k],
                          LAMBDA k : ~planar_rejected(ray(k).origin,
                                                      ray(k).dir, ref))
    IN  [j \in 1..Len(kept) |->
            [valid[kept[j]] EXCEPT
                !.planar_projection =
                    planar_projection(ray(kept[j]).origin, ray(kept[j]).dir,
                                      ref)]]

BatchReturn ==
    /\ pc = "next_pixel"
    /\ entry = "_process_pixels_batch"
    /\ px_index > Len(pixels_list)
    /\ results' = batch_results(camera, results, reference_elevation)
    /\ pc' = "processed"
    /\ UNCHANGED <<entry, camera, pixel, dem, rayvars, auxvars, params, built, guivars,
                   pixels_list, reference_elevation, px_index, outcomes>>

(* the engine's callers: direct calls and the pixel loops *)
NextRun ==
    \/ Next
    \/ NextPixel
    \/ ProcessPixel
    \/ ProcessReturn
    \/ CollectPixel
    \/ BatchReturn

InitCallers == Init \/ InitRun
SpecRun == InitCallers /\ [][NextRun]_vars

(* pixel k of the list succeeded: georeference_point answered success and  *)
(* its planar projection was accepted                                      *)
PixelSucceeded(k) ==
    LET ray == pixel_to_ray(camera, pixels_list[k])
    IN  /\ outcomes[k].success
        /\ ray.dir.z # 0
        /\ (reference_elevation - ray.origin.z) * ray.dir.z >= 0

Processed == pc = "processed"

(* C23: per-pixel failures are local: a pixel whose georeferencing fails   *)
(* or whose planar projection is rejected is skipped and every other pixel *)
(* is still processed; the results hold exactly one entry per succeeding   *)
(* pixel, in input order.                                                  *)
C23_FailuresAreLocal ==
    Processed
    => /\ Len(outcomes) = Len(pixels_list)
       /\ LET good == SelectSeq([k \in 1..Len(pixels_list) |-> k],
                                LAMBDA k : PixelSucceeded(k))
          IN  /\ Len(results) = Len(good)
              /\ \A j \in 1..Len(good) :
                    /\ results[j].pixel = pixels_list[good[j]]
                    /\ results[j].slope_projection.x = outcomes[good[j]].world_x.v
                    /\ results[j].slope_projection.y = outcomes[good[j]].world_y.v
                    /\ results[j].slope_projection.z = outcomes[good[j]].world_z.v

C23_Witness ==
    /\ Processed
    /\ entry = "_process_camera"
    /\ Len(pixels_list) = 2
    /\ ~outcomes[1].success
    /\ outcomes[2].success
    /\ Len(results) = 1
    /\ results[1].pixel = pixels_list[2]

----------------------------------------------------------------------------
(* Termination of intersect_ray_with_dem *)

(* The interpreter keeps executing a call it has started: every enabled    *)
(* step of the sequential code is eventually taken                         *)
InitLive == \E cl \in LiveCalls : InitCall(cl)
NextLive ==
    \/ Validate
    \/ MarchStep
    \/ MarchExhausted
    \/ BisectStep
    \/ BisectExhausted
SpecLive == InitLive /\ [][NextLive]_vars /\ WF_vars(NextLive)

ResultIsPointOrFailure == result = NoPoint \/ result.ok

MarchWithinBudget == PastValidation => i <= budget

DefaultBudgetIsLargeEnough ==
    (PastValidation /\ max_steps = NoneArg /\ ret \notin {"upward", "below_ground"}) =>
        /\ budget >= MinSteps
        /\ direction.z # 0 =>
             budget >= ((ray_origin.z - dem_min_elevation(dem)) * direction.n)
                         \div (Abs(direction.z) * step_size_coarse) + StepMargin

BisectionWithinTenIterations == iteration <= max_iter

----------------------------------------------------------------------------
(* The two elevation paths *)

(* C25: at every (x, y) inside the world bounds the manual bilinear path   *)
(* answers what the interpolator path answers at the same point: the same  *)
(* elevation, or absent where the interpolator path is absent              *)
C25_FallbackEqualsInterpolator ==
    (pc = "answered" /\ entry = "manual_bilinear"
     /\ WithinWorldBounds(dem, points[1]))
    => elevations[1] = get_elevation_at_point(dem, points[1].x, points[1].y)

----------------------------------------------------------------------------
(* The bracket of the bisection *)

AtOrBelowTerrain(p) ==
    LET g == get_elevation_at_point(dem, p.x, p.y) IN g.ok /\ p.z <= g.v

OnBracketSegment(p) ==
    /\ Between(p.x, bracket[1].x, bracket[2].x)
    /\ Between(p.y, bracket[1].y, bracket[2].y)
    /\ Between(p.z, bracket[1].z, bracket[2].z)

(* the bracket is the pair of march samples around the crossing *)
BracketIsMarchPair ==
    /\ bracket[1] = MarchSample(i - 1)
    /\ bracket[2] = MarchSample(i)
    /\ AboveTerrain(bracket[1])
    /\ AtOrBelowTerrain(bracket[2])

BracketHolds ==
    pc = "bisect" =>
        /\ BracketIsMarchPair
        /\ AboveTerrain(point1)
        /\ AtOrBelowTerrain(point2)
        /\ OnBracketSegment(point1)
        /\ OnBracketSegment(point2)

(* an iteration that neither converged nor broke off *)
IterationContinues == pc = "bisect" /\ pc' = "bisect" /\ iteration' = iteration + 1

OneEndpointReplaced ==
    IterationContinues =>
        LET mid == Midpoint(point1, point2)
        IN  IF AboveTerrain(mid)
            THEN point1' = mid /\ point1' # point1 /\ point2' = point2
            ELSE point2' = mid /\ point2' # point2 /\ point1' = point1

(* C26: whenever a bisection iteration starts, point1 is strictly above    *)
(* the terrain at its (x, y), point2 is at or below the terrain at its     *)
(* (x, y), and both lie on the segment between the last march sample above *)
(* the terrain and the first one at or below it; an iteration that does    *)
(* not converge replaces exactly one endpoint by the midpoint: point1 when *)
(* the midpoint is above the terrain, point2 otherwise                     *)
C26_BracketInvariant == [](BracketHolds) /\ [][OneEndpointReplaced]_vars

(* a bisection in which both endpoints have been replaced *)
C26_Witness ==
    /\ pc = "bisect"
    /\ iteration >= 2
    /\ point1 # bracket[1]
    /\ point2 # bracket[2]

----------------------------------------------------------------------------
(* The default step budget *)

(* C28: when max_steps is not supplied the march never runs out of steps:  *)
(* while it marches it has steps left, and the call never returns through  *)
(* the failure after the loop                                              *)
C28_DefaultBudgetNeverExhausted ==
    max_steps = NoneArg =>
        /\ pc = "march" => i < budget
        /\ ret # "budget"

(* a call without max_steps whose march needed all of its budget but the   *)
(* margin before it found the crossing                                     *)
C28_Witness ==
    /\ Returned
    /\ max_steps = NoneArg
    /\ ret = "converged"
    /\ budget > MinSteps
    /\ i + StepMargin = budget

----------------------------------------------------------------------------
(* The window, its run button and the workers (app_window.py, worker.py,   *)
(* backend_service.py, state_manager.py)                                   *)

MaxRuns == 2

Scenes == {"virtual_slope", "complex_terrain"}
Modes == {"single_point", "trajectory"}

(* create_slope_dem always returns a grid; DataLoader.load_dem returns     *)
(* (None, None) when the file cannot be read                               *)
LoadOutcomes(scene) == IF scene = "virtual_slope" THEN {TRUE} ELSE {TRUE, FALSE}

nonguivars == <<entry, camera, pixel, dem, pc, rayvars, auxvars, params, built,
                runvars>>

(* AppWindow.__init__: StateManager defaults, BackendService.__init__,     *)
(* _load_initial_dem, set_ready                                            *)
InitGui ==
    /\ entry = "AppWindow"
    /\ pc = "gui"
    /\ camera = NoCamera
    /\ pixel = <<0, 0>>
    /\ dem = NoDem
    /\ IdleRay
    /\ IdleAux
    /\ params = NoParams
    /\ built = "none"
    /\ IdleRun
    /\ state \in {[current_scene |-> "complex_terrain", simulation_mode |-> m] :
                    m \in Modes}
    /\ backend = NoBackend
    /\ run_sim_button = TRUE
    /\ workers = << >>
    /\ event_queue = << >>
    /\ current_simulation_data =
         [scene |-> state.current_scene, has_results |-> FALSE]

(* Worker.__init__ and threadpool.start: the worker holds the StateManager *)
(* itself. While the wrapped function runs, `clicked` keeps what the state *)
(* was at the click and `stale` tells whether a read of the state returned *)
(* something else                                                          *)
NewWorker(st) ==
    [pc |-> "fn_prepare", clicked |-> st, stale |-> FALSE, raised |-> FALSE,
     returned |-> NoData, emitted |-> << >>]

(* trigger_recalculation, lines 111-148; a disabled button emits no click  *)
TriggerRecalculation ==
    /\ run_sim_button
    /\ Len(workers) < MaxRuns
    /\ run_sim_button' = FALSE
    /\ workers' = Append(workers, NewWorker(state))
    /\ UNCHANGED <<nonguivars, state, backend, event_queue,
                   current_simulation_data>>

(* control_panel.py line 977: a control calls update_state on the GUI      *)
(* thread; no control is disabled during a run                             *)
ChangeMode ==
    /\ \E m \in Modes \ {state.simulation_mode} :
         state' = [state EXCEPT !.simulation_mode = m]
    /\ UNCHANGED <<nonguivars, backend, run_sim_button, workers, event_queue,
                   current_simulation_data>>

(* control_panel.py lines 204-207 and _on_scene_changed, lines 672-691 *)
ChangeScene ==
    /\ \E sc \in Scenes \ {state.current_scene} :
         /\ state' = [state EXCEPT !.current_scene = sc]
         /\ current_simulation_data' =
              [scene |-> sc, has_results |-> FALSE]
    /\ UNCHANGED <<nonguivars, backend, run_sim_button, workers, event_queue>>

(* _prepare_scene, lines 24-38, on the worker's thread: reads              *)
(* state.current_scene, rebinds dem_data and dem_transform, then builds    *)
(* the engine, whose constructor raises on an absent grid                  *)
WorkerPrepare(w) ==
    /\ workers[w].pc = "fn_prepare"
    /\ LET scene == state.current_scene
       IN  \E loaded \in LoadOutcomes(scene) :
             IF loaded
             THEN /\ backend' = [geo_engine |-> scene, dem_data |-> scene]
                  /\ workers' = [workers EXCEPT
                        ![w].stale = @ \/ scene # workers[w].clicked.current_scene,
                        ![w].pc = "fn_compute"]
             ELSE /\ backend' = [backend EXCEPT !.dem_data = "none"]
                  /\ workers' = [workers EXCEPT
                        ![w].stale = @ \/ scene # workers[w].clicked.current_scene,
                        ![w].clicked = NoState,
                        ![w].raised = TRUE,
                        ![w].pc = "emit"]
    /\ UNCHANGED <<nonguivars, state, run_sim_button, event_queue,
                   current_simulation_data>>

(* run_simulation_for_state, lines 45-110: reads the mode and the camera   *)
(* settings of the state, computes with self.geo_engine and returns        *)
(* self.dem_data with the results                                          *)
WorkerCompute(w) ==
    /\ workers[w].pc = "fn_compute"
    /\ workers' = [workers EXCEPT
          ![w].stale = @ \/ state.simulation_mode
                              # workers[w].clicked.simulation_mode,
          ![w].clicked = NoState,
          ![w].returned = [scene |-> backend.dem_data, has_results |-> TRUE],
          ![w].pc = "emit"]
    /\ UNCHANGED <<nonguivars, state, backend, run_sim_button, event_queue,
                   current_simulation_data>>

(* Worker.run, lines 36-42: error from the except clause, result from the  *)
(* else clause                                                             *)
first_signal_result(wk) == [signal |-> "result", data |-> wk.returned]
first_signal(wk) ==
    IF wk.raised THEN [signal |-> "error", data |-> NoData]
    ELSE [signal |-> "result", data |-> wk.returned]

WorkerEmit(w) ==
    /\ workers[w].pc = "emit"
    /\ LET sig == first_signal(workers[w])
       IN  /\ workers' = [workers EXCEPT ![w].emitted = Append(@, sig),
                                         ![w].pc = "finally"]
           /\ event_queue' = Append(event_queue,
                                    [signal |-> sig.signal, worker |-> w,
                                     data |-> sig.data])
    /\ UNCHANGED <<nonguivars, state, backend, run_sim_button,
                   current_simulation_data>>

(* Worker.run, lines 43-45 *)
WorkerFinally(w) ==
    /\ workers[w].pc = "finally"
    /\ workers' = [workers EXCEPT
          ![w].emitted = Append(@, [signal |-> "finished", data |-> NoData]),
          ![w].pc = "done"]
    /\ event_queue' = Append(event_queue,
                             [signal |-> "finished", worker |-> w,
                              data |-> NoData])
    /\ UNCHANGED <<nonguivars, state, backend, run_sim_button,
                   current_simulation_data>>

WorkerStep ==
    \E w \in 1..Len(workers) :
        \/ WorkerPrepare(w)
        \/ WorkerCompute(w)
        \/ WorkerEmit(w)
        \/ WorkerFinally(w)

(* the GUI thread takes the next queued signal: handle_calculation_result  *)
(* (lines 150-159), on_calculation_finished (200-203) or                   *)
(* on_calculation_error (205-208)                                          *)
HandleSignal ==
    /\ event_queue # << >>
    /\ LET ev == Head(event_queue)
       IN  /\ event_queue' = Tail(event_queue)
           /\ IF ev.signal = "result"
              THEN /\ current_simulation_data' = ev.data
                   /\ UNCHANGED run_sim_button
              ELSE /\ run_sim_button' = TRUE
                   /\ UNCHANGED current_simulation_data
    /\ UNCHANGED <<nonguivars, state, backend, workers>>

NextGui ==
    \/ TriggerRecalculation
    \/ ChangeMode
    \/ ChangeScene
    \/ WorkerStep
    \/ HandleSignal

SpecGui == InitGui /\ [][NextGui]_vars

(* the thread pool runs every worker it was given, and the event loop      *)
(* delivers every queued signal                                            *)
SpecGuiLive ==
    InitGui /\ [][NextGui]_vars /\ WF_vars(WorkerStep) /\ WF_vars(HandleSignal)

----------------------------------------------------------------------------
(* The signals of a worker *)

SignalNames(wk) == [k \in 1..Len(wk.emitted) |-> wk.emitted[k].signal]

FnReturned(wk) == wk.pc \in {"emit", "finally", "done"} /\ ~wk.raised
FnRaised(wk) == wk.pc \in {"emit", "finally", "done"} /\ wk.raised

SignalsInOrder(wk) ==
    /\ wk.pc \in {"fn_prepare", "fn_compute", "emit"} => wk.emitted = << >>
    /\ wk.pc = "finally" =>
          \/ FnReturned(wk) /\ wk.emitted = <<[signal |-> "result",
                                              data |-> wk.returned]>>
          \/ FnRaised(wk) /\ SignalNames(wk) = <<"error">>
    /\ wk.pc = "done" =>
          \/ /\ FnReturned(wk)
             /\ SignalNames(wk) = <<"result", "finished">>
             /\ wk.emitted[1].data = wk.returned
          \/ FnRaised(wk) /\ SignalNames(wk) = <<"error", "finished">>

(* C27: a worker emits result exactly when the wrapped function returned,  *)
(* with its return value, and error exactly when it raised, never both;    *)
(* it emits finished once, after that signal; and every worker handed to   *)
(* the thread pool gets there                                              *)
C27_WorkerSignals ==
    /\ [](\A w \in 1..Len(workers) : SignalsInOrder(workers[w]))
    /\ \A k \in 1..MaxRuns :
          (Len(workers) >= k) ~> (Len(workers) >= k /\ workers[k].pc = "done")

(* one worker that raised and one that returned have both finished *)
C27_Witness ==
    /\ Len(workers) >= 2
    /\ workers[1].pc = "done" /\ workers[1].raised
    /\ workers[2].pc = "done" /\ ~workers[2].raised
    /\ workers[2].returned.has_results

----------------------------------------------------------------------------
(* Runs in flight *)

(* the worker is inside run_simulation_for_state *)
InFn(wk) == wk.pc \in {"fn_prepare", "fn_compute"}
RunsInFlight == {w \in 1..Len(workers) : InFn(workers[w])}

(* C29: at most one worker is inside run_simulation_for_state at any time, *)
(* and the run button stays disabled while one is, so that no second run   *)
(* can be started that would replace geo_engine, dem_data and              *)
(* dem_transform under the first                                           *)
C29_AtMostOneRunInFlight ==
    /\ Cardinality(RunsInFlight) <= 1
    /\ RunsInFlight # {} => ~run_sim_button

(* C30: every read of the state made by a run returns what the state held  *)
(* when Run was clicked, and results shown in the window belong to the     *)
(* scene the state holds                                                   *)
C30_SnapshotConsistency ==
    /\ \A w \in 1..Len(workers) : ~workers[w].stale
    /\ current_simulation_data.has_results =>
          current_simulation_data.scene = state.current_scene

====
